---- MODULE Spec2Model ----
(***************************************************************************)
(* web3sentry: the detector aggregation engine.                            *)
(*                                                                         *)
(* DetectorService (src/src/api/detector_service.py) keeps a registry of   *)
(* detectors, fans one transaction out to the enabled detectors of a       *)
(* chosen subset with asyncio.gather, and merges the per-detector results  *)
(* with combine_detector_results (src/src/web3sentry/utils/risk_utils.py). *)
(*                                                                         *)
(* Python dicts are insertion ordered: a dict is modelled as a sequence of *)
(* [id, ...] items with pairwise distinct ids.  A detector result (a dict  *)
(* with string keys) is a function whose DOMAIN is its set of keys.        *)
(***************************************************************************)
EXTENDS Integers, Sequences, FiniteSets, TLC

\* ------------------------------------------------------------------ bounds
\* register_detector, enable() and disable() calls made after construction
MaxOtherCalls == 2
\* longest explicit detector_ids list passed to analyze_transaction
MaxSubsetLen == 2
\* register_detector, enable() and disable() calls interleaved when the
\* termination of a call is checked
MaxLiveOtherCalls == 1
\* longest explicit detector_ids list of those calls
MaxLiveSubsetLen == 1
\* longest list of risk levels handed to the risk_utils functions
MaxLevels == 2
\* longest specific_detectors list a TransactionAnalyzer is constructed with
MaxSpecific == 2
\* enable_detector and disable_detector calls made on a TransactionAnalyzer
MaxAnalyzerCalls == 2

\* ------------------------------------------------------- detectors and ids
\* The detector instances: the two the service constructs, and one more
\* BaseDetector subclass of the repository that callers may register.
MultisigDetector == "MultisigDetector"
ApprovalsDetector == "ApprovalsDetector"
TransactionAnomalyDetector == "TransactionAnomalyDetector"
Detectors == {MultisigDetector, ApprovalsDetector, TransactionAnomalyDetector}

\* the name and description each constructor passes to BaseDetector.__init__
Name(d) ==
    CASE d = MultisigDetector -> "Multisig Protection Detector"
      [] d = ApprovalsDetector -> "Approvals Security Detector"
      [] d = TransactionAnomalyDetector -> "Transaction Anomaly Detector"

Description(d) ==
    CASE d = MultisigDetector ->
            "Detects security threats in multisig wallet operations"
      [] d = ApprovalsDetector ->
            "Detects malicious or risky approvals in blockchain transactions"
      [] d = TransactionAnomalyDetector ->
            "Identifies unusual transaction patterns that may indicate security risks"

\* the detector instances callers hand to register_detector
Registrable == {TransactionAnomalyDetector}

\* ids under which callers register detectors
RegisterIds == {"multisig", "approvals", "anomaly"}
\* ids callers may name in detector_ids ("nonexistent" is never registered)
RequestIds == RegisterIds \cup {"nonexistent"}

\* a details value: a Python str or a Python list of str
Str(s) == [kind |-> "str", val |-> <<s>>]
List(l) == [kind |-> "list", val |-> l]

\* what an awaited analyze gives back: a returned dict or a raised exception
Return(d) == [kind |-> "return", value |-> d, msg |-> ""]
Raise(m) == [kind |-> "raise", value |-> <<>>, msg |-> m]
Pending == [kind |-> "pending", value |-> <<>>, msg |-> ""]

\* MultisigDetector.analyze: never raises; reports "Detector disabled" when
\* its flag is off at the time it runs.
MultisigAnalyze(isEnabled) ==
    IF ~isEnabled
    THEN {Return([risk_level |-> "unknown", details |-> Str("Detector disabled")])}
    ELSE {Return([risk_level |-> "safe",
                  details |-> Str("No security issues detected")]),
          Return([risk_level |-> "critical",
                  details |-> Str("No security issues detected")])}

\* ApprovalsDetector.analyze: never raises; same disabled short cut.
ApprovalsAnalyze(isEnabled) ==
    IF ~isEnabled
    THEN {Return([risk_level |-> "unknown", details |-> Str("Detector disabled")])}
    ELSE {Return([risk_level |-> "safe",
                  details |-> Str("Not an approval transaction")]),
          Return([risk_level |-> "high",
                  details |-> Str("No issues detected with this approval")])}

\* TransactionAnomalyDetector.analyze: upper-case levels, a list of details,
\* no enabled check, and int(value, 16) raises ValueError on a bad field.
AnomalyAnalyze(isEnabled) ==
    {Return([risk_level |-> "LOW", details |-> List(<<>>)]),
     Return([risk_level |-> "HIGH",
             details |-> List(<<"Unusually large transaction value",
                                "Transaction at unusual hour">>)]),
     Raise("invalid literal for int() with base 16")}

\* the outcomes detector.analyze(transaction_data) can have, over all
\* transaction records and detector-private histories
Analyze(det, isEnabled) ==
    CASE det = MultisigDetector -> MultisigAnalyze(isEnabled)
      [] det = ApprovalsDetector -> ApprovalsAnalyze(isEnabled)
      [] OTHER -> AnomalyAnalyze(isEnabled)

\* detector.analyze(transaction_data) on one transaction record and one
\* private history: analysis is what the detector's checks make of them,
\* returned as it is unless the detector's disabled short cut applies
AnalyzeAs(det, analysis, isEnabled) ==
    IF analysis \in Analyze(det, isEnabled)
    THEN analysis
    ELSE CHOOSE o \in Analyze(det, isEnabled) : TRUE

\* ------------------------------------------------------------ dict helpers
Range(s) == {s[i] : i \in 1..Len(s)}
Keys(dict) == [i \in 1..Len(dict) |-> dict[i].id]
KeySet(dict) == {dict[i].id : i \in 1..Len(dict)}
HasKey(dict, id) == id \in KeySet(dict)
Lookup(dict, id) == dict[CHOOSE i \in 1..Len(dict) : dict[i].id = id]

\* dict.setdefault: an existing key keeps its item
DictSetKeepsFirst(dict, item) ==
    IF HasKey(dict, item.id) THEN dict ELSE Append(dict, item)

\* dict[id] = item : replace in place, or append a new key at the end
DictSet(dict, item) ==
    IF HasKey(dict, item.id)
    THEN [i \in 1..Len(dict) |-> IF dict[i].id = item.id THEN item ELSE dict[i]]
    ELSE Append(dict, item)

\* --------------------------------------------------------------- risk_utils
\* str.lower() on the risk-level labels the detectors produce
Lower(s) ==
    CASE s = "SAFE" -> "safe"
      [] s = "UNKNOWN" -> "unknown"
      [] s = "LOW" -> "low"
      [] s = "MEDIUM" -> "medium"
      [] s = "HIGH" -> "high"
      [] s = "CRITICAL" -> "critical"
      [] s = "ERROR" -> "error"
      [] OTHER -> s

\* the seven risk levels, as the priority table lists them
RiskLevels == <<"safe", "unknown", "low", "medium", "high", "critical", "error">>

\* the labels handed to the risk_utils functions: the seven levels, the
\* upper-case labels of the repository's other vocabulary, and a string that
\* is no level at all
RiskLabels ==
    {RiskLevels[i] : i \in 1..Len(RiskLevels)}
        \cup {"SAFE", "LOW", "HIGH", "unrecognized-garbage"}

\* a priority table in which unknown shares the lowest rank
PriorityUnknownLowest(risk_level) ==
    LET l == Lower(risk_level) IN
    CASE l = "low" -> 2
      [] l = "medium" -> 3
      [] l = "high" -> 4
      [] l = "critical" -> 5
      [] l = "error" -> 6
      [] OTHER -> 0

\* a priority table whose default is the top rank
PriorityUnrecognizedHighest(risk_level) ==
    LET l == Lower(risk_level) IN
    CASE l = "safe" -> 0
      [] l = "unknown" -> 1
      [] l = "low" -> 2
      [] l = "medium" -> 3
      [] l = "high" -> 4
      [] l = "critical" -> 5
      [] OTHER -> 6

\* risk_levels.get(risk_level.lower(), 0)
get_risk_level_priority(risk_level) ==
    LET l == Lower(risk_level) IN
    CASE l = "safe" -> 0
      [] l = "unknown" -> 1
      [] l = "low" -> 2
      [] l = "medium" -> 3
      [] l = "high" -> 4
      [] l = "critical" -> 5
      [] l = "error" -> 6
      [] OTHER -> 0

\* a loop that never updates highest_index
RECURSIVE HighestLoopStaleIndex(_, _, _, _)
HighestLoopStaleIndex(risk_levels, i, highest_risk, highest_index) ==
    IF i > Len(risk_levels) THEN highest_risk
    ELSE LET level_index == get_risk_level_priority(risk_levels[i]) IN
         IF level_index > highest_index
         THEN HighestLoopStaleIndex(risk_levels, i + 1, risk_levels[i], highest_index)
         ELSE HighestLoopStaleIndex(risk_levels, i + 1, highest_risk, highest_index)

\* a loop that replaces the running maximum on equal priority
RECURSIVE HighestLoopLastWins(_, _, _, _)
HighestLoopLastWins(risk_levels, i, highest_risk, highest_index) ==
    IF i > Len(risk_levels) THEN highest_risk
    ELSE LET level_index == get_risk_level_priority(risk_levels[i]) IN
         IF level_index >= highest_index
         THEN HighestLoopLastWins(risk_levels, i + 1, risk_levels[i], level_index)
         ELSE HighestLoopLastWins(risk_levels, i + 1, highest_risk, highest_index)

\* the for loop of calculate_highest_risk_level, from position i on
RECURSIVE HighestLoop(_, _, _, _)
HighestLoop(risk_levels, i, highest_risk, highest_index) ==
    IF i > Len(risk_levels) THEN highest_risk
    ELSE LET level_index == get_risk_level_priority(risk_levels[i]) IN
         IF level_index > highest_index
         THEN HighestLoop(risk_levels, i + 1, risk_levels[i], level_index)
         ELSE HighestLoop(risk_levels, i + 1, highest_risk, highest_index)

\* a scan without the empty-list test
HighestOfEmptyIsSafe(risk_levels) ==
    HighestLoop(risk_levels, 1, "safe", get_risk_level_priority("safe"))

calculate_highest_risk_level(risk_levels) ==
    IF risk_levels = <<>> THEN "unknown"
    ELSE HighestLoop(risk_levels, 1, "safe", get_risk_level_priority("safe"))

\* a hierarchy list that puts unknown below safe
RiskHierarchyUnknownFirst ==
    <<"unknown", "safe", "low", "medium", "high", "critical", "error">>

\* the older service (src/api/detector_service.py), _calculate_overall_risk:
\* its own hierarchy list, matched without lower()
risk_hierarchy == <<"safe", "unknown", "low", "medium", "high", "critical", "error">>

\* level in risk_hierarchy
InHierarchy(level) == \E k \in 1..Len(risk_hierarchy) : risk_hierarchy[k] = level

\* risk_hierarchy.index(level), counted from 0
HierarchyIndex(level) ==
    (CHOOSE k \in 1..Len(risk_hierarchy) : risk_hierarchy[k] = level) - 1

\* the for loop of _calculate_overall_risk over risk_levels, from position i
RECURSIVE OverallLoop(_, _, _, _)
OverallLoop(risk_levels, i, highest_risk, highest_index) ==
    IF i > Len(risk_levels) THEN highest_risk
    ELSE IF InHierarchy(risk_levels[i])
            /\ HierarchyIndex(risk_levels[i]) > highest_index
    THEN OverallLoop(risk_levels, i + 1, risk_levels[i],
                     HierarchyIndex(risk_levels[i]))
    ELSE OverallLoop(risk_levels, i + 1, highest_risk, highest_index)

\* _calculate_overall_risk, from the collected risk_levels on
calculate_overall_risk(risk_levels) ==
    IF risk_levels = <<>> THEN "unknown"
    ELSE OverallLoop(risk_levels, 1, "safe", HierarchyIndex("safe"))

\* the older service's loop that collects risk_levels from results.items()
RECURSIVE OlderRiskLevels(_, _, _)
OlderRiskLevels(results, i, risk_levels) ==
    IF i > Len(results) THEN risk_levels
    ELSE OlderRiskLevels(results, i + 1,
            IF ("success" \in DOMAIN results[i].result
                   /\ results[i].result.success)
               /\ "risk_level" \in DOMAIN results[i].result
            THEN Append(risk_levels, results[i].result.risk_level)
            ELSE risk_levels)

\* the older service's _calculate_overall_risk(results)
older_calculate_overall_risk(results) ==
    calculate_overall_risk(OlderRiskLevels(results, 1, <<>>))

\* f"[{detector_id}] {detail}"
Prefixed(detector_id, detail) == "[" \o detector_id \o "] " \o detail

\* a merge that handles only list-valued details
EntryDetailsListOnly(detector_id, result) ==
    IF "details" \in DOMAIN result /\ result.details.kind = "list"
    THEN [j \in 1..Len(result.details.val) |->
             Prefixed(detector_id, result.details.val[j])]
    ELSE <<>>

\* the detail lines one entry of the mapping adds to all_details
EntryDetails(detector_id, result) ==
    IF "details" \in DOMAIN result /\ result.details.kind = "list"
    THEN [j \in 1..Len(result.details.val) |->
             Prefixed(detector_id, result.details.val[j])]
    ELSE IF "details" \in DOMAIN result /\ result.details.kind = "str"
    THEN <<Prefixed(detector_id, result.details.val[1])>>
    ELSE <<>>

\* a merge that forgets the success filter
EntryRiskLevelsUnfiltered(result) ==
    IF "risk_level" \in DOMAIN result
    THEN <<result.risk_level>>
    ELSE <<>>

\* the risk level one entry of the mapping adds to risk_levels
EntryRiskLevels(result) ==
    IF ("success" \in DOMAIN result /\ result.success)
       /\ "risk_level" \in DOMAIN result
    THEN <<result.risk_level>>
    ELSE <<>>

\* the for loop of combine_detector_results over results.items()
RECURSIVE CombineLoop(_, _, _, _)
CombineLoop(results, i, risk_levels, all_details) ==
    IF i > Len(results)
    THEN [risk_levels |-> risk_levels, all_details |-> all_details]
    ELSE CombineLoop(results, i + 1,
                     risk_levels \o EntryRiskLevels(results[i].result),
                     all_details \o EntryDetails(results[i].id, results[i].result))

combine_detector_results(results) ==
    LET acc == CombineLoop(results, 1, <<>>, <<>>) IN
    [overall_risk |-> calculate_highest_risk_level(acc.risk_levels),
     details |-> acc.all_details,
     detector_results |-> results]

\* ---------------------------------------------------------- DetectorService
VARIABLES
    detectors,          \* self.detectors: dict id -> detector instance
    enabled,            \* detector.enabled of every detector instance
    pc,                 \* where analyze_transaction is: idle, awaiting,
                        \* returned or raised
    detector_ids,       \* the detector_ids argument of the call in progress
    detectors_to_use,   \* the local of that name: the registry itself
                        \* (alias) or the dict built from detector_ids
    tasks,              \* the coroutines handed to asyncio.gather
    detector_results,   \* the list asyncio.gather fills, one slot per task
    task_outcome,       \* per task, what its _analyze_with_detector gave
    overtaken,          \* some task completed before one dispatched earlier
    verdict,            \* what the call returned
    call_detectors,     \* self.detectors as it was when the call began
    call_enabled,       \* the enabled flags as they were when the call began
    other_calls,        \* register_detector, enable() and disable() calls
                        \* made so far
    task_analysis,      \* per task, what the detector's analysis of the
                        \* transaction gives in the detector's private state
                        \* (its outcome unless the detector is disabled)
    first_call,         \* history: the first call that was made, once over
    input_levels,       \* risk_utils: the risk_levels argument
    returned_level,     \* what calculate_highest_risk_level returned
    old_level,          \* what the older service's merge selected
    info,               \* name and description of every detector instance
    last_op,            \* history: the last registry or analyzer operation
    op_result,          \* what that operation returned
    analyzer_detectors, \* TransactionAnalyzer.detectors: the loaded list
    analyzer_enabled,   \* the enabled flag of each loaded detector
    analyzer_pc,        \* where TransactionAnalyzer.analyze_transaction is
    detector_tasks,     \* its local of that name: the dispatched detectors
    analyzer_results,   \* what each dispatched detector's analyze gave
    analyzer_verdict,   \* what the call returned, or the exception it raised
    approval_history,   \* ApprovalsDetector.approval_history, by user id
    known_malicious_contracts,  \* ApprovalsDetector.known_malicious_contracts
    signature_history,  \* MultisigDetector.signature_history, by wallet
    analysed,           \* the analyses that returned without an error
    calls               \* the concurrent callers of one DetectorService

vars == <<detectors, enabled, pc, detector_ids, detectors_to_use, tasks,
          detector_results, task_outcome, overtaken, verdict, call_detectors,
          call_enabled, other_calls, task_analysis, first_call,
          input_levels, returned_level, old_level, info, last_op, op_result,
          analyzer_detectors, analyzer_enabled, analyzer_pc, detector_tasks,
          analyzer_results, analyzer_verdict, approval_history,
          known_malicious_contracts, signature_history, analysed, calls>>

callVars == <<pc, detector_ids, detectors_to_use, tasks, detector_results,
              task_outcome, overtaken, verdict, call_detectors, call_enabled,
              task_analysis>>

\* the risk_utils functions called on their own
riskVars == <<input_levels, returned_level, old_level>>

\* the last operation on record and its return value
queryVars == <<last_op, op_result>>

\* the TransactionAnalyzer and the detectors it loaded
analyzerVars == <<analyzer_detectors, analyzer_enabled, analyzer_pc,
                  detector_tasks, analyzer_results, analyzer_verdict>>

\* the private state of the two detectors of src/detectors, with the record
\* of the analyses made on it
detectorVars == <<approval_history, known_malicious_contracts,
                  signature_history, analysed, calls>>

\* what no operation of the registry or of the engine touches
restVars == <<first_call, input_levels, returned_level, old_level, info,
              analyzerVars, detectorVars>>

\* what analyze_transaction leaves alone
auxVars == <<restVars, queryVars>>

\* detector_ids: None, or a list of ids
None == [given |-> FALSE, ids |-> <<>>]
Ids(l) == [given |-> TRUE, ids |-> l]

\* all lists over a set of ids, up to a length
Lists(S, n) == UNION {[1..k -> S] : k \in 0..n}
DetectorIdsArgs == {None} \cup {Ids(l) : l \in Lists(RequestIds, MaxSubsetLen)}

NoVerdict == [overall_risk |-> "", details |-> <<>>, detector_results |-> <<>>]

\* no call is on record
NoCall == [made |-> FALSE]

\* no operation is on record, and nothing has been returned
NoOp == [op |-> "none"]
NoResult == [kind |-> "none"]

\* return values: None, a detector instance, a list, a bool
PyNone == [kind |-> "None"]
Instance(d) == [kind |-> "detector", detector |-> d]
PyList(l) == [kind |-> "list", items |-> l]
Bool(b) == [kind |-> "bool", val |-> b]

\* a function that has not been called
NotCalled == "<not called>"

\* DetectorService.__init__ and initialize_detectors
EngineInit ==
    /\ detectors = <<[id |-> "multisig", detector |-> MultisigDetector],
                     [id |-> "approvals", detector |-> ApprovalsDetector]>>
    /\ enabled = [d \in Detectors |-> TRUE]
    /\ pc = "idle"
    /\ detector_ids = None
    /\ detectors_to_use = [alias |-> TRUE, dict |-> <<>>]
    /\ tasks = <<>>
    /\ detector_results = <<>>
    /\ task_outcome = <<>>
    /\ overtaken = FALSE
    /\ verdict = NoVerdict
    /\ call_detectors = <<>>
    /\ call_enabled = [d \in Detectors |-> TRUE]
    /\ other_calls = 0
    /\ task_analysis = <<>>

\* the functions of risk_utils are not called on their own
RiskIdle ==
    /\ input_levels = <<>>
    /\ returned_level = NotCalled
    /\ old_level = NotCalled

\* BaseDetector.__init__ of every detector instance
Constructed ==
    [d \in Detectors |-> [name |-> Name(d), description |-> Description(d)]]

\* no registry query has been made
QueryIdle ==
    /\ last_op = NoOp
    /\ op_result = NoResult

\* no TransactionAnalyzer has been constructed
AnalyzerIdle ==
    /\ analyzer_detectors = <<>>
    /\ analyzer_enabled = <<>>
    /\ analyzer_pc = "idle"
    /\ detector_tasks = <<>>
    /\ analyzer_results = <<>>
    /\ analyzer_verdict = NoResult

\* the user ids, spender contracts and wallets of the transactions
Users == {"u1", "u2"}
Contracts == {"0xc1", "0xc2"}
Wallets == {"w1"}

\* a user without an entry in approval_history
NoApprovals ==
    [present |-> FALSE, approved_contracts |-> {}, approved_tokens |-> {},
     approval_count |-> 0]

\* a wallet without an entry in signature_history
NoSignatures ==
    [present |-> FALSE, transaction_count |-> 0, common_signers |-> {},
     all_signers |-> {}]

\* the callers of analyze_transaction that run side by side, one call each
MaxCallers == 2
Callers == 1..MaxCallers
NotCalling ==
    [pc |-> "idle", tx |-> <<>>, tasks |-> <<>>, outcomes |-> <<>>,
     verdict |-> NoVerdict]

\* ApprovalsDetector.__init__ and MultisigDetector.__init__: empty histories,
\* no known malicious contract; nobody has called yet
DetectorsFresh ==
    /\ approval_history = [u \in Users |-> NoApprovals]
    /\ known_malicious_contracts = {}
    /\ signature_history = [w \in Wallets |-> NoSignatures]
    /\ analysed = {}
    /\ calls = [c \in Callers |-> NotCalling]

Init ==
    /\ EngineInit
    /\ first_call = NoCall
    /\ RiskIdle
    /\ info = Constructed
    /\ QueryIdle
    /\ AnalyzerIdle
    /\ DetectorsFresh

\* Other coroutines run only while no analyze_transaction is running or
\* while it is suspended in its await.
OthersMayRun == pc \in {"idle", "awaiting"}

register_detector(detector_id, detector) ==
    /\ OthersMayRun
    /\ other_calls < MaxOtherCalls
    /\ detectors' = DictSet(detectors, [id |-> detector_id, detector |-> detector])
    /\ other_calls' = other_calls + 1
    /\ UNCHANGED <<enabled, callVars, restVars>>

\* a switch that flips the flag
EnableToggles(detector) ==
    /\ OthersMayRun
    /\ other_calls < MaxOtherCalls
    /\ enabled' = [enabled EXCEPT ![detector] = ~enabled[detector]]
    /\ other_calls' = other_calls + 1
    /\ UNCHANGED <<detectors, callVars, restVars>>

enable(detector) ==
    /\ OthersMayRun
    /\ other_calls < MaxOtherCalls
    /\ enabled' = [enabled EXCEPT ![detector] = TRUE]
    /\ other_calls' = other_calls + 1
    /\ UNCHANGED <<detectors, callVars, restVars>>

disable(detector) ==
    /\ OthersMayRun
    /\ other_calls < MaxOtherCalls
    /\ enabled' = [enabled EXCEPT ![detector] = FALSE]
    /\ other_calls' = other_calls + 1
    /\ UNCHANGED <<detectors, callVars, restVars>>

\* bool(detector_ids): None and the empty list are both falsy
Truthy(arg) == arg.given /\ arg.ids # <<>>

\* a comprehension without the "if id in self.detectors" filter: an id that
\* is not registered gets the first registered detector
RECURSIVE SubsetDictUnfiltered(_, _, _, _)
SubsetDictUnfiltered(ids, i, registry, acc) ==
    IF i > Len(ids) THEN acc
    ELSE IF HasKey(registry, ids[i])
    THEN SubsetDictUnfiltered(ids, i + 1, registry,
                              DictSet(acc, Lookup(registry, ids[i])))
    ELSE SubsetDictUnfiltered(ids, i + 1, registry,
             DictSet(acc, [id |-> ids[i], detector |-> registry[1].detector]))

\* {id: self.detectors[id] for id in detector_ids if id in self.detectors}
RECURSIVE SubsetDict(_, _, _, _)
SubsetDict(ids, i, registry, acc) ==
    IF i > Len(ids) THEN acc
    ELSE IF HasKey(registry, ids[i])
    THEN SubsetDict(ids, i + 1, registry, DictSet(acc, Lookup(registry, ids[i])))
    ELSE SubsetDict(ids, i + 1, registry, acc)

DetectorsToUse(arg, registry) ==
    IF Truthy(arg)
    THEN [alias |-> FALSE, dict |-> SubsetDict(arg.ids, 1, registry, <<>>)]
    ELSE [alias |-> TRUE, dict |-> <<>>]

\* the dict the local detectors_to_use denotes now
ToUse(local, registry) == IF local.alias THEN registry ELSE local.dict

\* the loop that builds tasks: one coroutine per enabled detector
RECURSIVE BuildTasks(_, _, _, _)
BuildTasks(dict, i, flags, acc) ==
    IF i > Len(dict) THEN acc
    ELSE IF flags[dict[i].detector]
    THEN BuildTasks(dict, i + 1, flags, Append(acc, dict[i]))
    ELSE BuildTasks(dict, i + 1, flags, acc)

\* a call that keeps the dict it built as the registry
CallStoresSubset(arg) ==
    /\ pc = "idle"
    /\ detector_ids' = arg
    /\ detectors_to_use' = DetectorsToUse(arg, detectors)
    /\ detectors' = ToUse(detectors_to_use', detectors)
    /\ tasks' = BuildTasks(detectors', 1, enabled, <<>>)
    /\ detector_results' = [i \in 1..Len(tasks') |-> Pending]
    /\ task_outcome' = [i \in 1..Len(tasks') |-> Pending]
    /\ task_analysis' = [i \in 1..Len(tasks') |-> Pending]
    /\ overtaken' = FALSE
    /\ call_detectors' = detectors
    /\ call_enabled' = enabled
    /\ pc' = "awaiting"
    /\ UNCHANGED <<enabled, verdict, other_calls, auxVars>>

\* analyze_transaction up to its await
Call(arg) ==
    /\ pc = "idle"
    /\ detector_ids' = arg
    /\ detectors_to_use' = DetectorsToUse(arg, detectors)
    /\ tasks' = BuildTasks(ToUse(detectors_to_use', detectors), 1, enabled, <<>>)
    /\ detector_results' = [i \in 1..Len(tasks') |-> Pending]
    /\ task_outcome' = [i \in 1..Len(tasks') |-> Pending]
    /\ task_analysis' = [i \in 1..Len(tasks') |-> Pending]
    /\ overtaken' = FALSE
    /\ call_detectors' = detectors
    /\ call_enabled' = enabled
    /\ pc' = "awaiting"
    /\ UNCHANGED <<detectors, enabled, verdict, other_calls, auxVars>>

\* a gather that lists the outcomes in completion order
GatherStoreAsCompleted(slots, i, outcome) ==
    LET k == CHOOSE k \in 1..Len(slots) :
                 /\ slots[k] = Pending
                 /\ \A j \in 1..(k - 1) : slots[j] # Pending
    IN [slots EXCEPT ![k] = outcome]

\* asyncio.gather keeps each task's outcome in the slot of that task
GatherStore(slots, i, outcome) == [slots EXCEPT ![i] = outcome]

\* a gather that cancels the tasks still pending once a task has raised
TaskCancelledOnFailure(outcomes, i) ==
    /\ outcomes[i] = Pending
    /\ \A j \in 1..Len(outcomes) : outcomes[j].kind # "raise"

\* a wrapper that runs a detector again after it has raised
TaskRetriedOnFailure(outcomes, i) ==
    outcomes[i] = Pending \/ outcomes[i].kind = "raise"

\* gather runs each coroutine it was handed once, whatever the other tasks
\* did: a task can run as long as it has no outcome yet
TaskMayRun(outcomes, i) == outcomes[i] = Pending

\* a wrapper that turns the exception into an error record it returns
AnalyzeWithDetectorContains(outcome) ==
    IF outcome.kind = "raise"
    THEN Return([success |-> FALSE, error |-> outcome.msg,
                 risk_level |-> "error"])
    ELSE outcome

\* the try/except of _analyze_with_detector: the result is returned as it
\* is, an exception is logged and raised again
analyze_with_detector(outcome) ==
    IF outcome.kind = "raise"
    THEN Raise(outcome.msg)
    ELSE outcome

\* _analyze_with_detector for task i: the detector's analyze runs, its
\* return value or its re-raised exception becomes the task's outcome
AnalyzeWithDetector(i) ==
    /\ pc = "awaiting"
    /\ i \in 1..Len(tasks)
    /\ TaskMayRun(task_outcome, i)
    /\ \E analysis \in Analyze(tasks[i].detector, TRUE) :
          LET outcome == analyze_with_detector(
                             AnalyzeAs(tasks[i].detector, analysis,
                                       enabled[tasks[i].detector])) IN
          /\ task_analysis' = [task_analysis EXCEPT ![i] = analysis]
          /\ task_outcome' = [task_outcome EXCEPT ![i] = outcome]
          /\ detector_results' = GatherStore(detector_results, i, outcome)
    /\ overtaken' = (overtaken \/ \E j \in 1..(i - 1) : task_outcome[j] = Pending)
    /\ UNCHANGED <<detectors, enabled, pc, detector_ids, detectors_to_use,
                   tasks, verdict, call_detectors, call_enabled, other_calls,
                   auxVars>>

\* a gather that resolves as soon as one task is done
GatherFirstDone(slots) == slots = <<>> \/ \E i \in 1..Len(slots) : slots[i] # Pending

\* a gather under a timeout: it may resolve with tasks still pending
GatherDoneOrTimeout(slots) == TRUE

\* gather(*tasks, return_exceptions=True) resolves when every task is done
GatherDone(slots) == \A i \in 1..Len(slots) : slots[i] # Pending

\* a result loop that marks a failure entry successful
EntryFailureMarkedSuccess(outcome) ==
    IF outcome.kind = "raise"
    THEN [success |-> TRUE, error |-> outcome.msg, risk_level |-> "error"]
    ELSE outcome.value @@ [success |-> TRUE]

\* the entry recorded for one gathered outcome
Entry(outcome) ==
    IF outcome.kind = "raise"
    THEN [success |-> FALSE, error |-> outcome.msg, risk_level |-> "error"]
    ELSE outcome.value @@ [success |-> TRUE]

\* a result loop that stops at the shorter of the two lists, as zip does
RECURSIVE ProcessResultsZip(_, _, _, _)
ProcessResultsZip(keys, gathered, i, results) ==
    IF i > Len(keys) \/ i > Len(gathered)
    THEN [raised |-> FALSE, results |-> results]
    ELSE ProcessResultsZip(keys, gathered, i + 1,
             DictSet(results, [id |-> keys[i], result |-> Entry(gathered[i])]))

\* the "Process results" loop: results[id] = entry of detector_results[i],
\* for i, id in enumerate(detectors_to_use.keys())
RECURSIVE ProcessResults(_, _, _, _)
ProcessResults(keys, gathered, i, results) ==
    IF i > Len(keys) THEN [raised |-> FALSE, results |-> results]
    ELSE IF i > Len(gathered) THEN [raised |-> TRUE, results |-> results]
    ELSE ProcessResults(keys, gathered, i + 1,
             DictSet(results, [id |-> keys[i], result |-> Entry(gathered[i])]))

\* analyze_transaction from the await on: build the mapping and combine it,
\* or let the IndexError of detector_results[i] escape
Resume ==
    /\ pc = "awaiting"
    /\ GatherDone(detector_results)
    /\ \E p \in {ProcessResults(Keys(ToUse(detectors_to_use, detectors)),
                                detector_results, 1, <<>>)} :
         IF p.raised
         THEN /\ pc' = "raised"
              /\ verdict' = NoVerdict
         ELSE /\ pc' = "returned"
              /\ verdict' = combine_detector_results(p.results)
    /\ UNCHANGED <<detectors, enabled, detector_ids, detectors_to_use, tasks,
                   detector_results, task_outcome, overtaken, call_detectors,
                   call_enabled, other_calls, task_analysis, auxVars>>

\* the caller takes the outcome; the service is ready for the next call
TakeOutcome ==
    /\ pc \in {"returned", "raised"}
    /\ pc' = "idle"
    /\ detector_ids' = None
    /\ detectors_to_use' = [alias |-> TRUE, dict |-> <<>>]
    /\ tasks' = <<>>
    /\ detector_results' = <<>>
    /\ task_outcome' = <<>>
    /\ overtaken' = FALSE
    /\ verdict' = NoVerdict
    /\ call_detectors' = <<>>
    /\ call_enabled' = [d \in Detectors |-> TRUE]
    /\ task_analysis' = <<>>
    /\ UNCHANGED <<detectors, enabled, other_calls, riskVars, info, queryVars,
                   analyzerVars, detectorVars>>

Finish == TakeOutcome /\ UNCHANGED first_call

Next ==
    \/ \E id \in RegisterIds, d \in Registrable :
          register_detector(id, d) /\ UNCHANGED queryVars
    \/ \E d \in Detectors : enable(d) /\ UNCHANGED queryVars
    \/ \E d \in Detectors : disable(d) /\ UNCHANGED queryVars
    \/ \E arg \in DetectorIdsArgs : Call(arg)
    \/ \E i \in 1..Cardinality(RegisterIds) : AnalyzeWithDetector(i)
    \/ Resume
    \/ Finish

Spec == Init /\ [][Next]_vars

\* The event loop resumes the awaiting call once gather has resolved; a
\* detector's analyze may never complete, so no fairness is assumed for it.
\* the detector_ids arguments of the calls whose termination is checked
LiveIdsArgs == {None} \cup {Ids(l) : l \in Lists(RequestIds, MaxLiveSubsetLen)}

\* (Fewer other calls are interleaved than in Spec, and shorter subsets.)
NextLive ==
    \/ \E id \in RegisterIds, d \in Registrable :
          /\ other_calls < MaxLiveOtherCalls
          /\ register_detector(id, d)
          /\ UNCHANGED queryVars
    \/ \E d \in Detectors :
          other_calls < MaxLiveOtherCalls /\ enable(d) /\ UNCHANGED queryVars
    \/ \E d \in Detectors :
          other_calls < MaxLiveOtherCalls /\ disable(d) /\ UNCHANGED queryVars
    \/ \E arg \in LiveIdsArgs : Call(arg)
    \/ \E i \in 1..Cardinality(RegisterIds) : AnalyzeWithDetector(i)
    \/ Resume
    \/ Finish

SpecLive == Init /\ [][NextLive]_vars /\ WF_vars(Resume)

\* --------------------------------------------- risk_utils, called directly
\* a caller hands a list of labels to the risk_utils functions
InitRisk ==
    /\ EngineInit
    /\ first_call = NoCall
    /\ input_levels \in Lists(RiskLabels, MaxLevels)
    /\ returned_level = NotCalled
    /\ old_level = NotCalled
    /\ info = Constructed
    /\ QueryIdle
    /\ AnalyzerIdle
    /\ DetectorsFresh

\* calculate_highest_risk_level(input_levels)
CalculateHighest ==
    /\ returned_level = NotCalled
    /\ returned_level' = calculate_highest_risk_level(input_levels)
    /\ UNCHANGED <<detectors, enabled, callVars, other_calls, first_call,
                   input_levels, old_level, info, queryVars, analyzerVars,
                   detectorVars>>

\* the older service's selection over the same list
CalculateOverall ==
    /\ old_level = NotCalled
    /\ old_level' = calculate_overall_risk(input_levels)
    /\ UNCHANGED <<detectors, enabled, callVars, other_calls, first_call,
                   input_levels, returned_level, info, queryVars,
                   analyzerVars, detectorVars>>

NextRisk ==
    \/ CalculateHighest
    \/ CalculateOverall

SpecRisk == InitRisk /\ [][NextRisk]_vars

\* ------------------------------------------------- the service, called twice
\* what is on record of the call that is over: its arguments, the registry
\* and flags it started from, what each dispatched detector's analysis of the
\* transaction gave, and what the caller got
CallRecord ==
    [made |-> TRUE,
     detector_ids |-> detector_ids,
     detectors |-> call_detectors,
     enabled |-> call_enabled,
     analyses |-> task_analysis,
     outcome |-> pc,
     overall_risk |-> verdict.overall_risk,
     ids |-> {verdict.detector_results[i].id :
                 i \in 1..Len(verdict.detector_results)}]

\* the caller takes the outcome; the first call made is kept on record
FinishFirst ==
    /\ TakeOutcome
    /\ first_call' = IF first_call.made THEN first_call ELSE CallRecord

\* (the registry is the one the service constructed: no detector is added)
NextRepeat ==
    \/ \E d \in Detectors : enable(d) /\ UNCHANGED queryVars
    \/ \E d \in Detectors : disable(d) /\ UNCHANGED queryVars
    \/ \E arg \in DetectorIdsArgs : Call(arg)
    \/ \E i \in 1..Cardinality(RegisterIds) : AnalyzeWithDetector(i)
    \/ Resume
    \/ FinishFirst

SpecRepeat == Init /\ [][NextRepeat]_vars

\* ------------------------------------------------- the registry, on its own
\* DetectorService.get_detector: dict.get, None for an id that is no key
get_detector(detector_id) ==
    IF HasKey(detectors, detector_id)
    THEN Instance(Lookup(detectors, detector_id).detector)
    ELSE PyNone

\* the flag as the constructor set it
InfoAsConstructed(detector) ==
    [name |-> info[detector].name,
     description |-> info[detector].description,
     enabled |-> TRUE]

\* BaseDetector.get_detector_info (the subclasses add category, counters and
\* configuration, which are left out)
get_detector_info(detector) ==
    [name |-> info[detector].name,
     description |-> info[detector].description,
     enabled |-> enabled[detector]]

\* DetectorService.get_all_detectors: {"id": detector_id, **info} per item
get_all_detectors ==
    [i \in 1..Len(detectors) |->
        get_detector_info(detectors[i].detector) @@ [id |-> detectors[i].id]]

\* the operations, each put on record with what it returned
CallRegister(detector_id, detector) ==
    /\ register_detector(detector_id, detector)
    /\ last_op' = [op |-> "register_detector", id |-> detector_id,
                   detector |-> detector]
    /\ op_result' = PyNone

CallEnable(detector) ==
    /\ enable(detector)
    /\ last_op' = [op |-> "enable", detector |-> detector]
    /\ op_result' = PyNone

CallDisable(detector) ==
    /\ disable(detector)
    /\ last_op' = [op |-> "disable", detector |-> detector]
    /\ op_result' = PyNone

GetDetector(detector_id) ==
    /\ last_op' = [op |-> "get_detector", id |-> detector_id]
    /\ op_result' = get_detector(detector_id)
    /\ UNCHANGED <<detectors, enabled, callVars, other_calls, restVars>>

GetAllDetectors ==
    /\ last_op' = [op |-> "get_all_detectors"]
    /\ op_result' = PyList(get_all_detectors)
    /\ UNCHANGED <<detectors, enabled, callVars, other_calls, restVars>>

\* (callers register any detector instance under any id)
NextRegistry ==
    \/ \E id \in RegisterIds, d \in Detectors : CallRegister(id, d)
    \/ \E d \in Detectors : CallEnable(d)
    \/ \E d \in Detectors : CallDisable(d)
    \/ \E id \in RequestIds : GetDetector(id)
    \/ GetAllDetectors

SpecRegistry == Init /\ [][NextRegistry]_vars

\* ------------------------------------------------ the TransactionAnalyzer
\* web3sentry.detectors.AVAILABLE_DETECTORS, in the order of the dict
AVAILABLE_DETECTORS ==
    <<"transaction_anomaly", "contract_vulnerability", "multisig", "approvals">>

\* the name each detector class of the package passes to BaseDetector
AnalyzerName(key) ==
    CASE key = "transaction_anomaly" -> "Transaction Anomaly Detector"
      [] key = "contract_vulnerability" -> "Contract Vulnerability Detector"
      [] key = "multisig" -> "Multisig Protection Detector"
      [] key = "approvals" -> "Approvals Security Detector"

\* str.lower() on the detector names callers pass and detectors carry
LowerName(s) ==
    CASE s = "Transaction Anomaly Detector" -> "transaction anomaly detector"
      [] s = "Contract Vulnerability Detector" -> "contract vulnerability detector"
      [] s = "Multisig Protection Detector" -> "multisig protection detector"
      [] s = "MULTISIG PROTECTION DETECTOR" -> "multisig protection detector"
      [] s = "Approvals Security Detector" -> "approvals security detector"
      [] OTHER -> s

\* the detector_name arguments callers pass: names as the detectors carry
\* them, in another case, and the key of a class, which is no detector's name
NameArgs ==
    {"Transaction Anomaly Detector", "transaction anomaly detector",
     "Contract Vulnerability Detector", "MULTISIG PROTECTION DETECTOR",
     "Approvals Security Detector", "multisig"}

\* the result dict of the package's detectors carries the detector's name
WithDetector(outcome, name) ==
    IF outcome.kind = "return"
    THEN Return(outcome.value @@ [detector |-> name])
    ELSE outcome

\* the package's ContractVulnerabilityDetector, MultisigDetector and
\* ApprovalsDetector: a DetectorResult with a level of the seven-level
\* enumeration and a detail list
ContractVulnerabilityAnalyze ==
    {Return([risk_level |-> "critical",
             details |-> List(<<"Contract vulnerability found">>)])}

PackageMultisigAnalyze ==
    {Return([risk_level |-> "safe", details |-> List(<<>>)])}

PackageApprovalsAnalyze ==
    {Return([risk_level |-> "medium",
             details |-> List(<<"Risky approval">>)])}

\* the outcomes analyze(transaction_data) of a loaded detector can have
AnalyzerAnalyze(key) ==
    {WithDetector(o, AnalyzerName(key)) :
        o \in CASE key = "transaction_anomaly" -> AnomalyAnalyze(TRUE)
                [] key = "contract_vulnerability" -> ContractVulnerabilityAnalyze
                [] key = "multisig" -> PackageMultisigAnalyze
                [] key = "approvals" -> PackageApprovalsAnalyze}

\* TransactionAnalyzer.__init__: all detectors of the package, or one fresh
\* instance per name of specific_detectors, or none; all enabled
Loadable ==
    {AVAILABLE_DETECTORS}
        \cup Lists({AVAILABLE_DETECTORS[i] : i \in 1..Len(AVAILABLE_DETECTORS)},
                   MaxSpecific)

InitAnalyzer ==
    /\ EngineInit
    /\ first_call = NoCall
    /\ RiskIdle
    /\ info = Constructed
    /\ QueryIdle
    /\ analyzer_detectors \in Loadable
    /\ analyzer_enabled = [i \in 1..Len(analyzer_detectors) |-> TRUE]
    /\ analyzer_pc = "idle"
    /\ detector_tasks = <<>>
    /\ analyzer_results = <<>>
    /\ analyzer_verdict = NoResult
    /\ DetectorsFresh

\* what the TransactionAnalyzer never touches
serviceVars == <<detectors, enabled, callVars, first_call, input_levels,
                 returned_level, old_level, info, detectorVars>>

\* the indices of the loaded detectors whose flag is set, in list order
RECURSIVE EnabledIndices(_, _, _)
EnabledIndices(flags, i, acc) ==
    IF i > Len(flags) THEN acc
    ELSE EnabledIndices(flags, i + 1, IF flags[i] THEN Append(acc, i) ELSE acc)

\* the rank _calculate_overall_risk gives a label: risk_hierarchy.get(r, 0)
AnalyzerRank(r) ==
    CASE r = "HIGH" -> 3
      [] r = "MEDIUM" -> 2
      [] r = "LOW" -> 1
      [] OTHER -> 0

\* max(risk_levels, key=...): the first element of the highest rank
RECURSIVE AnalyzerMaxLoop(_, _, _)
AnalyzerMaxLoop(risk_levels, i, best) ==
    IF i > Len(risk_levels) THEN best
    ELSE AnalyzerMaxLoop(risk_levels, i + 1,
                         IF AnalyzerRank(risk_levels[i]) > AnalyzerRank(best)
                         THEN risk_levels[i] ELSE best)

\* TransactionAnalyzer._calculate_overall_risk; max() of an empty list
\* raises ValueError
analyzer_calculate_overall_risk(risk_levels) ==
    IF risk_levels = <<>>
    THEN Raise("max() arg is an empty sequence")
    ELSE Return(AnalyzerMaxLoop(risk_levels, 2, risk_levels[1]))

\* the loop that extends all_details with "[detector] detail"
RECURSIVE AnalyzerDetailsLoop(_, _, _)
AnalyzerDetailsLoop(rs, i, all_details) ==
    IF i > Len(rs) THEN all_details
    ELSE AnalyzerDetailsLoop(rs, i + 1,
            all_details \o [k \in 1..Len(rs[i].details.val) |->
                               Prefixed(rs[i].detector, rs[i].details.val[k])])

\* {r["detector"]: r for r in results}
RECURSIVE AnalyzerResultsLoop(_, _, _)
AnalyzerResultsLoop(rs, i, dict) ==
    IF i > Len(rs) THEN dict
    ELSE AnalyzerResultsLoop(rs, i + 1,
            DictSet(dict, [id |-> rs[i].detector, result |-> rs[i]]))

\* analyze_transaction up to its await: the early return when nothing is
\* loaded, else one task per detector whose flag is set
AnalyzerCall ==
    /\ analyzer_pc = "idle"
    /\ IF analyzer_detectors = <<>>
       THEN /\ analyzer_pc' = "returned"
            /\ analyzer_verdict' =
                  Return([overall_risk |-> "UNKNOWN", details |-> <<>>,
                          detector_results |-> <<>>])
            /\ UNCHANGED <<detector_tasks, analyzer_results>>
       ELSE /\ analyzer_pc' = "awaiting"
            /\ detector_tasks' = EnabledIndices(analyzer_enabled, 1, <<>>)
            /\ analyzer_results' = [k \in 1..Len(detector_tasks') |-> Pending]
            /\ analyzer_verdict' = NoResult
    /\ UNCHANGED <<analyzer_detectors, analyzer_enabled, other_calls,
                   serviceVars, queryVars>>

\* asyncio.gather(*detector_tasks): the first exception a task raises
\* resolves the awaited future; the other tasks keep running
GatherPropagate(outcome, resolved) ==
    IF outcome.kind = "raise" /\ resolved = NoResult THEN outcome ELSE resolved

\* one dispatched detector's analyze runs to its end
AnalyzerTask(k) ==
    /\ analyzer_pc \in {"awaiting", "raised"}
    /\ k \in 1..Len(detector_tasks)
    /\ analyzer_results[k] = Pending
    /\ \E outcome \in AnalyzerAnalyze(analyzer_detectors[detector_tasks[k]]) :
          /\ analyzer_results' = [analyzer_results EXCEPT ![k] = outcome]
          /\ analyzer_verdict' =
                IF analyzer_pc = "awaiting"
                THEN GatherPropagate(outcome, analyzer_verdict)
                ELSE analyzer_verdict
    /\ UNCHANGED <<analyzer_detectors, analyzer_enabled, analyzer_pc,
                   detector_tasks, other_calls, serviceVars, queryVars>>

\* what analyze_transaction does with the list gather gave it
AnalyzerMerge(rs) ==
    LET max_risk == analyzer_calculate_overall_risk(
                        [k \in 1..Len(rs) |-> rs[k].risk_level]) IN
    IF max_risk.kind = "raise" THEN max_risk
    ELSE Return([overall_risk |-> max_risk.value,
                 details |-> AnalyzerDetailsLoop(rs, 1, <<>>),
                 detector_results |-> AnalyzerResultsLoop(rs, 1, <<>>)])

\* the await is over: the exception gather raised leaves the call, or the
\* results of all tasks are merged
AnalyzerResume ==
    /\ analyzer_pc = "awaiting"
    /\ IF analyzer_verdict # NoResult
       THEN analyzer_pc' = "raised" /\ UNCHANGED analyzer_verdict
       ELSE /\ \A k \in 1..Len(analyzer_results) : analyzer_results[k] # Pending
            /\ \E v \in {AnalyzerMerge([k \in 1..Len(analyzer_results) |->
                                            analyzer_results[k].value])} :
                  /\ analyzer_verdict' = v
                  /\ analyzer_pc' = IF v.kind = "raise" THEN "raised"
                                    ELSE "returned"
    /\ UNCHANGED <<analyzer_detectors, analyzer_enabled, detector_tasks,
                   analyzer_results, other_calls, serviceVars, queryVars>>

\* the caller takes the outcome; tasks still running are left to themselves
AnalyzerFinish ==
    /\ analyzer_pc \in {"returned", "raised"}
    /\ analyzer_pc' = "idle"
    /\ detector_tasks' = <<>>
    /\ analyzer_results' = <<>>
    /\ analyzer_verdict' = NoResult
    /\ UNCHANGED <<analyzer_detectors, analyzer_enabled, other_calls,
                   serviceVars, queryVars>>

\* a search that compares the names as they are
FirstMatchExact(detector_name) ==
    LET matches == {i \in 1..Len(analyzer_detectors) :
                       AnalyzerName(analyzer_detectors[i]) = detector_name}
    IN IF matches = {} THEN 0
       ELSE CHOOSE i \in matches : \A j \in matches : i <= j

\* the for loop of enable_detector and disable_detector: the first loaded
\* detector whose name equals detector_name ignoring case, 0 when none does
FirstMatch(detector_name) ==
    LET matches == {i \in 1..Len(analyzer_detectors) :
                       LowerName(AnalyzerName(analyzer_detectors[i]))
                           = LowerName(detector_name)}
    IN IF matches = {} THEN 0
       ELSE CHOOSE i \in matches : \A j \in matches : i <= j

\* enable_detector and disable_detector set the flag of the detector found
SetDetector(op, detector_name, flag) ==
    /\ analyzer_pc \in {"idle", "awaiting"}
    /\ other_calls < MaxAnalyzerCalls
    /\ other_calls' = other_calls + 1
    /\ last_op' = [op |-> op, name |-> detector_name]
    /\ LET i == FirstMatch(detector_name) IN
       IF i = 0
       THEN op_result' = Bool(FALSE) /\ UNCHANGED analyzer_enabled
       ELSE /\ op_result' = Bool(TRUE)
            /\ analyzer_enabled' = [analyzer_enabled EXCEPT ![i] = flag]
    /\ UNCHANGED <<analyzer_detectors, analyzer_pc, detector_tasks,
                   analyzer_results, analyzer_verdict, serviceVars>>

enable_detector(detector_name) ==
    SetDetector("enable_detector", detector_name, TRUE)

disable_detector(detector_name) ==
    SetDetector("disable_detector", detector_name, FALSE)

\* [detector.name for detector in self.detectors if detector.enabled]
get_active_detectors ==
    LET active == EnabledIndices(analyzer_enabled, 1, <<>>) IN
    [k \in 1..Len(active) |-> AnalyzerName(analyzer_detectors[active[k]])]

GetActiveDetectors ==
    /\ analyzer_pc \in {"idle", "awaiting"}
    /\ last_op' = [op |-> "get_active_detectors"]
    /\ op_result' = PyList(get_active_detectors)
    /\ UNCHANGED <<analyzerVars, other_calls, serviceVars>>

NextAnalyzer ==
    \/ AnalyzerCall
    \/ \E k \in 1..Len(AVAILABLE_DETECTORS) : AnalyzerTask(k)
    \/ AnalyzerResume
    \/ AnalyzerFinish
    \/ \E name \in NameArgs : enable_detector(name)
    \/ \E name \in NameArgs : disable_detector(name)
    \/ GetActiveDetectors

SpecAnalyzer == InitAnalyzer /\ [][NextAnalyzer]_vars

\* ----------------------------------------------------- the call, as observed
\* the call is over: it returned a verdict or an exception escaped it
Finished == pc \in {"returned", "raised"}

\* the ids of the detectors the call dispatched
DispatchedIds == {tasks[i].id : i \in 1..Len(tasks)}

\* the per-detector mapping of the returned verdict
Mapping == verdict.detector_results

\* whether the detector registered under id was enabled when the call began
EnabledAtCall(id) == call_enabled[Lookup(call_detectors, id).detector]

\* the candidate ids of the call: the registered ids of the explicit subset,
\* or every registered id when detector_ids was omitted
CandidateIds ==
    IF detector_ids.given
    THEN Range(detector_ids.ids) \cap KeySet(call_detectors)
    ELSE KeySet(call_detectors)

\* the detail strings task i's own analysis returned
OwnDetails(i) ==
    IF task_outcome[i].kind = "return" /\ "details" \in DOMAIN task_outcome[i].value
    THEN task_outcome[i].value.details.val
    ELSE <<>>

\* every task's own detail strings under its own id, task after task in
\* dispatch order
DispatchOrderDetails ==
    LET fl[i \in 0..Len(tasks)] ==
            IF i = 0 THEN <<>>
            ELSE fl[i - 1] \o [j \in 1..Len(OwnDetails(i)) |->
                                  "[" \o tasks[i].id \o "] " \o OwnDetails(i)[j]]
    IN fl[Len(tasks)]

\* the risk levels the tasks' own analyses returned, in dispatch order
\* (a task whose analyze raised has none)
ReturnedLevels ==
    LET lv[i \in 0..Len(tasks)] ==
            IF i = 0 THEN <<>>
            ELSE IF task_outcome[i].kind = "return"
                 THEN Append(lv[i - 1], task_outcome[i].value.risk_level)
                 ELSE lv[i - 1]
    IN lv[Len(tasks)]

\* ------------------------------------------------------------------- claims

\* C1: for every call, each dispatched detector id appears exactly once in
\* the returned mapping, as a success entry or as a failure entry, and no
\* other id appears.
C1_DispatchedExactlyOnce ==
    Finished =>
        /\ pc = "returned"
        /\ KeySet(Mapping) = DispatchedIds
        /\ Len(Mapping) = Cardinality(DispatchedIds)
        /\ \A i \in 1..Len(tasks) :
              Lookup(Mapping, tasks[i].id).result.success
                  = (task_outcome[i].kind = "return")

\* C2: a detector whose enabled flag is false when the call selects its
\* detectors is not dispatched and is absent from the returned mapping, the
\* enabled candidates are analysed and returned normally, and the call does
\* not fail; with or without an explicit subset.
C2_DisabledAbsent ==
    (Finished /\ detector_ids # Ids(<<>>)) =>
        LET on == {id \in CandidateIds : EnabledAtCall(id)} IN
        /\ DispatchedIds = on
        /\ pc = "returned"
        /\ KeySet(Mapping) = on
        /\ \A i \in 1..Len(tasks) :
              Lookup(Mapping, tasks[i].id).result = Entry(task_outcome[i])

\* C3: no detector failure and no selection outcome makes the call raise:
\* every call returns a verdict.
C3_NeverRaises == pc # "raised"

\* C4: when a dispatched detector's analyze raises, the call records under
\* that id an entry with risk level error, success false and the failure's
\* message, and every sibling's entry is what its own analysis returned.
C4_FailureContained ==
    (Finished /\ \E i \in 1..Len(tasks) : task_outcome[i].kind = "raise") =>
        /\ pc = "returned"
        /\ \A i \in 1..Len(tasks) :
              Lookup(Mapping, tasks[i].id).result =
                  IF task_outcome[i].kind = "raise"
                  THEN [success |-> FALSE, risk_level |-> "error",
                        error |-> task_outcome[i].msg]
                  ELSE task_outcome[i].value @@ [success |-> TRUE]

\* the case of C5: analyze_transaction(tx, [that_id]) is over, that_id was
\* the only detector dispatched and its analyze raised
SingleFailure ==
    /\ Finished
    /\ detector_ids.given
    /\ Len(detector_ids.ids) = 1
    /\ Len(tasks) = 1
    /\ task_outcome[1].kind = "raise"

\* C5 as stated: with a single dispatched detector that raises, the call
\* returns overall risk error and an entry with success false and a
\* non-empty message.
C5_SingleFailureOverallError ==
    SingleFailure =>
        /\ pc = "returned"
        /\ verdict.overall_risk = "error"
        /\ Mapping[1].result.success = FALSE
        /\ Mapping[1].result.error # ""

\* C5 amended: with a single dispatched detector that raises, the call
\* returns overall risk unknown (no successful entry takes part in the merge)
\* and one entry, under that id, with success false, risk level error and the
\* failure's message; the call does not raise.
C5_SingleFailureOverallUnknown ==
    SingleFailure =>
        /\ pc = "returned"
        /\ verdict.overall_risk = "unknown"
        /\ Len(Mapping) = 1
        /\ Mapping[1].id = detector_ids.ids[1]
        /\ Mapping[1].result = [success |-> FALSE, risk_level |-> "error",
                                error |-> task_outcome[1].msg]
        /\ task_outcome[1].msg # ""

C5_Witness == SingleFailure /\ pc = "returned"

\* C6: the overall risk of a returned verdict is highest() of the risk levels
\* of exactly the entries marked success=true, in mapping order; these are
\* the levels the non-failing analyses returned, and a detector whose analyze
\* raised contributes nothing.
C6_OverallFromSuccessful ==
    pc = "returned" =>
        LET ml[i \in 0..Len(Mapping)] ==
                IF i = 0 THEN <<>>
                ELSE IF Mapping[i].result.success
                     THEN Append(ml[i - 1], Mapping[i].result.risk_level)
                     ELSE ml[i - 1]
        IN /\ verdict.overall_risk = calculate_highest_risk_level(ml[Len(Mapping)])
           /\ ml[Len(Mapping)] = ReturnedLevels

C6_Witness ==
    /\ pc = "returned"
    /\ \E i \in 1..Len(tasks) : task_outcome[i].kind = "raise"
    /\ verdict.overall_risk = "critical"

\* C7: the detail list of a returned verdict holds every contributing
\* detector's detail strings, each prefixed by [its id], in the detector's
\* own order, detector after detector in dispatch order; two detectors
\* reporting low and critical give overall risk critical.
C7_DetailsFlattened ==
    pc = "returned" =>
        /\ verdict.details = DispatchOrderDetails
        /\ (/\ Len(tasks) = 2
            /\ \E i, j \in 1..Len(tasks) :
                  /\ task_outcome[i].kind = "return"
                  /\ task_outcome[j].kind = "return"
                  /\ Lower(task_outcome[i].value.risk_level) = "low"
                  /\ Lower(task_outcome[j].value.risk_level) = "critical")
           => verdict.overall_risk = "critical"

C7_Witness ==
    /\ pc = "returned"
    /\ verdict.overall_risk = "critical"
    /\ Len(verdict.details) = 3
    /\ \E i \in 1..Len(tasks) : Len(OwnDetails(i)) = 2

\* C8: the call is a join: it is over only when every dispatched detector
\* has completed or failed, and with N known, enabled candidates the
\* returned mapping has exactly N entries.
C8_JoinNotRace ==
    /\ Finished =>
          \A i \in 1..Len(tasks) : task_outcome[i] # Pending /\ detector_results[i] # Pending
    /\ (/\ pc = "returned"
        /\ detector_ids # Ids(<<>>)
        /\ \A id \in CandidateIds : EnabledAtCall(id))
       => Len(Mapping) = Cardinality(CandidateIds)

C8_Witness ==
    /\ pc = "returned"
    /\ Len(tasks) = 3
    /\ overtaken
    /\ Len(Mapping) = 3

\* C9: a returned verdict does not depend on the completion order: the
\* mapping has one entry per dispatched id, each built from that detector's
\* own outcome, and the detail list follows the dispatch order.
C9_OrderIndependent ==
    pc = "returned" =>
        /\ Mapping = [i \in 1..Len(tasks) |->
                         [id |-> tasks[i].id, result |-> Entry(task_outcome[i])]]
        /\ verdict.details = DispatchOrderDetails

C9_Witness ==
    /\ pc = "returned"
    /\ Len(tasks) >= 2
    /\ overtaken
    /\ task_outcome[1] # task_outcome[2]
    /\ verdict.details # <<>>

\* C10: an explicit detector_ids list S, the empty list included, restricts
\* the returned mapping to the ids of S that are registered and enabled;
\* only an omitted detector_ids makes every registered detector a candidate.
\* (Stated for calls in which every registered detector is enabled and the
\* registry is not changed during the call.)
C10_SubsetRestricts ==
    (/\ Finished
     /\ detectors = call_detectors
     /\ \A id \in KeySet(call_detectors) : EnabledAtCall(id)) =>
        /\ pc = "returned"
        /\ KeySet(Mapping) = {id \in CandidateIds : EnabledAtCall(id)}

\* C11: whenever the call dispatches no detector (every candidate disabled,
\* or the subset names no registered id), the call does not raise and
\* returns overall risk unknown, no details and an empty mapping.
C11_EmptyDispatchUnknown ==
    (Finished /\ tasks = <<>>) =>
        /\ pc = "returned"
        /\ verdict.overall_risk = "unknown"
        /\ verdict.details = <<>>
        /\ Mapping = <<>>

\* the ids of the explicit subset that were registered when the call began
KnownIds == Range(detector_ids.ids) \cap KeySet(call_detectors)

\* C12: ids of detector_ids that are not registered are ignored: they are
\* never dispatched, never appear in the mapping and make nothing raise (a
\* call that raises had a known id whose detector was disabled), the known
\* enabled ids of the subset are dispatched and returned with their own
\* entries, and ["nonexistent"] alone gives overall risk unknown and an
\* empty mapping.
C12_UnknownIdsIgnored ==
    (pc # "idle" /\ Truthy(detector_ids)) =>
        /\ DispatchedIds = {id \in KnownIds : EnabledAtCall(id)}
        /\ pc = "returned" => KeySet(Mapping) \subseteq KnownIds
        /\ pc = "raised" => \E id \in KnownIds : ~EnabledAtCall(id)
        /\ (Finished /\ \A id \in KnownIds : EnabledAtCall(id)) =>
              /\ pc = "returned"
              /\ Mapping = [i \in 1..Len(tasks) |->
                               [id |-> tasks[i].id,
                                result |-> Entry(task_outcome[i])]]
        /\ (Finished /\ detector_ids = Ids(<<"nonexistent">>)) =>
              /\ pc = "returned"
              /\ verdict.overall_risk = "unknown"
              /\ Mapping = <<>>

C12_Witness ==
    /\ pc = "returned"
    /\ detector_ids = Ids(<<"nonexistent", "approvals">>)
    /\ KeySet(Mapping) = {"approvals"}

\* C13: within one call every dispatched detector's analyze is invoked
\* exactly once: while the call awaits, a task without an outcome can run
\* whatever its siblings did (failed, completed or still pending), an outcome
\* once produced is never replaced (no retry), and the call is over only when
\* every task has its outcome.
C13_EachInvokedOnce ==
    /\ [](pc = "awaiting" =>
             \A i \in 1..Len(tasks) :
                 task_outcome[i] = Pending => ENABLED AnalyzeWithDetector(i))
    /\ [][pc = "awaiting" =>
             \A i \in 1..Len(tasks) :
                 task_outcome[i] # Pending => task_outcome'[i] = task_outcome[i]]_vars
    /\ [](Finished => \A i \in 1..Len(tasks) : task_outcome[i] # Pending)

\* a detector failed first and a sibling dispatched before it completed
\* afterwards, in a call that returned
C13_Witness ==
    /\ pc = "returned"
    /\ overtaken
    /\ Len(tasks) = 3
    /\ task_outcome[3].kind = "raise"
    /\ task_outcome[1].kind = "return"

\* C14: enable() and disable() calls made while a call is in flight do not
\* change that call: every dispatched detector (it was enabled when the call
\* chose its dispatch set) contributes a result of its normal analysis, not
\* the "Detector disabled" result.
C14_TogglesOnlyForLaterCalls ==
    \A i \in 1..Len(tasks) :
        task_outcome[i] # Pending =>
            /\ call_enabled[tasks[i].detector]
            /\ task_outcome[i] \in Analyze(tasks[i].detector, TRUE)

\* C15: a call made with the same subset as the first call, from the same
\* registry and the same enabled flags, on a transaction and detector states
\* that give every dispatched detector the same analysis, ends as the first
\* call did: with the same overall risk and the same set of ids in its
\* mapping.
C15_SameCallSameVerdict ==
    (/\ first_call.made
     /\ Finished
     /\ detector_ids = first_call.detector_ids
     /\ call_detectors = first_call.detectors
     /\ call_enabled = first_call.enabled
     /\ task_analysis = first_call.analyses) =>
        /\ pc = first_call.outcome
        /\ pc = "returned" =>
              /\ verdict.overall_risk = first_call.overall_risk
              /\ KeySet(Mapping) = first_call.ids

\* C16: the call completes if and only if every dispatched detector completes
\* or fails: once every task has its outcome the call is eventually over,
\* and as long as one task has no outcome no step ends the call (there is no
\* timeout and no cancellation).
C16_CompletesIffDetectorsDo ==
    /\ (pc = "awaiting" /\ \A i \in 1..Len(tasks) : task_outcome[i] # Pending)
           ~> Finished
    /\ [][(pc = "awaiting" /\ \E i \in 1..Len(tasks) : task_outcome[i] = Pending)
             => pc' = "awaiting"]_vars

\* a call of two detectors is over, the second having completed first
C16_Witness ==
    /\ Finished
    /\ Len(tasks) = 2
    /\ overtaken

\* ---------------------------------------------------- claims on risk_utils
\* the priorities of the labels of a list
Priorities(levels) == {get_risk_level_priority(levels[i]) : i \in 1..Len(levels)}

\* the maximum priority in a non-empty list
MaxPriority(levels) ==
    CHOOSE m \in Priorities(levels) : \A q \in Priorities(levels) : q <= m

\* the first element, left to right, whose priority is the maximum
FirstOfMaxPriority(levels) ==
    levels[CHOOSE i \in 1..Len(levels) :
              /\ get_risk_level_priority(levels[i]) = MaxPriority(levels)
              /\ \A j \in 1..(i - 1) :
                    get_risk_level_priority(levels[j]) < MaxPriority(levels)]

\* one of the seven levels, in its canonical spelling
IsLevel(x) == \E k \in 1..Len(RiskLevels) : RiskLevels[k] = x

\* a label the priority table recognises, whatever its case
Recognized(x) == IsLevel(Lower(x))

\* a list, last element first
Reversed(levels) == [i \in 1..Len(levels) |-> levels[Len(levels) + 1 - i]]

\* C17: for two of the seven levels of different priority, the highest of
\* the pair, in either order, is the one of greater priority; and for every
\* non-empty list the priority of the result is the maximum priority in the
\* list, whatever the order of its elements.
C17_HighestHasMaxPriority ==
    (returned_level # NotCalled /\ input_levels # <<>>) =>
        /\ get_risk_level_priority(returned_level) = MaxPriority(input_levels)
        /\ get_risk_level_priority(
               calculate_highest_risk_level(Reversed(input_levels)))
              = get_risk_level_priority(returned_level)
        /\ \A a, b \in {RiskLevels[k] : k \in 1..Len(RiskLevels)} :
              (/\ get_risk_level_priority(a) > get_risk_level_priority(b)
               /\ input_levels \in {<<a, b>>, <<b, a>>})
              => returned_level = a

C17_Witness ==
    /\ input_levels = <<"low", "critical">>
    /\ returned_level = "critical"

\* C18 as stated: for every non-empty list the result is an element of the
\* list: the first element, left to right, whose priority is the maximum
\* priority of the list.
C18_ReturnsFirstOfMax ==
    (returned_level # NotCalled /\ input_levels # <<>>) =>
        /\ \E i \in 1..Len(input_levels) : input_levels[i] = returned_level
        /\ returned_level = FirstOfMaxPriority(input_levels)

\* C18 amended: for every non-empty list whose maximum priority is above the
\* lowest rank, the result is the first element, left to right, whose
\* priority is that maximum; when every element has the lowest rank (safe in
\* any case, or a label that is no level) the result is the string "safe",
\* whether or not it is an element of the list.
C18_FirstOfMaxOrSafe ==
    (returned_level # NotCalled /\ input_levels # <<>>) =>
        IF MaxPriority(input_levels) > get_risk_level_priority("safe")
        THEN returned_level = FirstOfMaxPriority(input_levels)
        ELSE returned_level = "safe"

C18_Witness ==
    /\ input_levels = <<"unrecognized-garbage", "SAFE">>
    /\ returned_level = "safe"

\* C19: the priority is a strict total order on the seven levels,
\* safe < unknown < low < medium < high < critical < error, with pairwise
\* distinct ranks, and the older service's merge ranks the seven levels the
\* same way: its hierarchy index of a level is that level's priority, and on
\* a list of the seven levels both merges select the same level.
C19_SameStrictOrder ==
    LET chain == <<"safe", "unknown", "low", "medium", "high", "critical", "error">>
    IN /\ \A i, j \in 1..Len(chain) :
              i < j => get_risk_level_priority(chain[i])
                          < get_risk_level_priority(chain[j])
       /\ \A i \in 1..Len(chain) :
              /\ InHierarchy(chain[i])
              /\ HierarchyIndex(chain[i]) = get_risk_level_priority(chain[i])
       /\ (/\ returned_level # NotCalled
           /\ old_level # NotCalled
           /\ \A i \in 1..Len(input_levels) : IsLevel(input_levels[i]))
          => old_level = returned_level

C19_Witness ==
    /\ input_levels = <<"unknown", "error">>
    /\ returned_level = "error"
    /\ old_level = "error"

\* C20: a label that is no level has the priority of safe, the lowest, so
\* it never lifts the result: the result of a list is the result of the
\* list without such labels when a recognised label remains, and has the
\* lowest priority otherwise.
C20_UnrecognizedIsLowest ==
    /\ \A i \in 1..Len(input_levels) :
          ~Recognized(input_levels[i]) =>
              get_risk_level_priority(input_levels[i])
                  = get_risk_level_priority("safe")
    /\ \A x \in RiskLabels :
          get_risk_level_priority(x) >= get_risk_level_priority("safe")
    /\ returned_level # NotCalled =>
          LET rec == SelectSeq(input_levels, Recognized) IN
          IF rec # <<>>
          THEN returned_level = calculate_highest_risk_level(rec)
          ELSE input_levels # <<>> =>
                  get_risk_level_priority(returned_level)
                      = get_risk_level_priority("safe")

C20_Witness ==
    /\ input_levels = <<"unrecognized-garbage", "low">>
    /\ returned_level = "low"

\* ------------------------------------------------- claims, third sitting
\* C21: the highest of the empty list is unknown, not safe (in risk_utils
\* and in the older service's merge), so a returned verdict none of whose
\* entries is marked successful has overall risk unknown.
C21_EmptyIsUnknown ==
    /\ calculate_highest_risk_level(<<>>) = "unknown"
    /\ calculate_overall_risk(<<>>) = "unknown"
    /\ (/\ pc = "returned"
        /\ \A i \in 1..Len(Mapping) : ~Mapping[i].result.success)
       => verdict.overall_risk = "unknown"

C21_Witness ==
    /\ pc = "returned"
    /\ Mapping = <<>>
    /\ verdict.overall_risk = "unknown"

\* the detector bound to an id, None when the id is no key
Bound(dict, id) ==
    IF HasKey(dict, id) THEN Instance(Lookup(dict, id).detector) ELSE PyNone

\* C22: a register_detector(id, d) call binds id to d whatever was bound
\* before and leaves every other id's binding as it was; no other operation
\* changes a binding; get_detector(id) returns the detector bound to id, and
\* None, without raising, for an id that was never registered.
C22_LastRegistrationWins ==
    [][/\ last_op'.op = "register_detector" =>
            /\ Bound(detectors', last_op'.id) = Instance(last_op'.detector)
            /\ \A id \in RequestIds \ {last_op'.id} :
                   Bound(detectors', id) = Bound(detectors, id)
       /\ last_op'.op # "register_detector" =>
            \A id \in RequestIds : Bound(detectors', id) = Bound(detectors, id)
       /\ last_op'.op = "get_detector" =>
            /\ op_result' = Bound(detectors, last_op'.id)
            /\ "nonexistent" = last_op'.id => op_result' = PyNone
      ]_vars

\* a duplicate registration has replaced the detector the service bound, and
\* get_detector returned the replacement
C22_Witness ==
    /\ last_op = [op |-> "get_detector", id |-> "multisig"]
    /\ op_result = Instance(ApprovalsDetector)
    /\ Len(detectors) = 2

\* C23: get_all_detectors returns one descriptor per registered id, in
\* insertion order, each with that id and the current enabled flag (and the
\* name and description) of the detector bound to it, and changes neither
\* the registry nor any flag.
C23_ListingMatchesRegistry ==
    [][last_op'.op = "get_all_detectors" =>
         /\ op_result'.kind = "list"
         /\ Len(op_result'.items) = Len(detectors)
         /\ \A i \in 1..Len(detectors) :
               /\ op_result'.items[i].id = detectors[i].id
               /\ op_result'.items[i].enabled = enabled[detectors[i].detector]
               /\ op_result'.items[i].name = Name(detectors[i].detector)
         /\ \A i, j \in 1..Len(op_result'.items) :
               op_result'.items[i].id = op_result'.items[j].id => i = j
         /\ detectors' = detectors
         /\ enabled' = enabled
         /\ info' = info
      ]_vars

\* a listing of three ids, the last one registered by a caller, with a
\* disabled detector in it
C23_Witness ==
    /\ last_op.op = "get_all_detectors"
    /\ Len(op_result.items) = 3
    /\ op_result.items[3].id = "anomaly"
    /\ \E i \in 1..3 : ~op_result.items[i].enabled

\* C24: a detector is enabled when constructed; enable() leaves the flag
\* true and disable() leaves it false whatever it was (so a second call
\* changes nothing), no other operation changes a flag, and no operation
\* changes a name or a description.
C24_FlagIsLastCall ==
    /\ [](other_calls = 0 => \A d \in Detectors : enabled[d])
    /\ [][/\ last_op'.op = "enable" =>
               enabled' = [enabled EXCEPT ![last_op'.detector] = TRUE]
          /\ last_op'.op = "disable" =>
               enabled' = [enabled EXCEPT ![last_op'.detector] = FALSE]
          /\ last_op'.op \notin {"enable", "disable"} => enabled' = enabled
          /\ (last_op' = last_op /\ last_op.op \in {"enable", "disable"}) =>
               enabled' = enabled
          /\ info' = info
          ]_vars

\* disable() was called twice on the same detector
C24_Witness ==
    /\ last_op = [op |-> "disable", detector |-> MultisigDetector]
    /\ other_calls = 2
    /\ ~enabled[MultisigDetector]
    /\ \A d \in Detectors \ {MultisigDetector} : enabled[d]

\* C25: no step of analyze_transaction (the dispatch, a detector task, the
\* merge after the await, the return) changes the registry or an enabled
\* flag; these change only in the register_detector, enable and disable
\* calls of other coroutines.
C25_CallLeavesRegistryAlone ==
    [][(pc' # pc \/ task_outcome' # task_outcome \/ verdict' # verdict) =>
          /\ detectors' = detectors
          /\ enabled' = enabled
          /\ info' = info
      ]_vars

\* a call on a subset returned; the registry holds a caller's detector and a
\* disabled one, as it did when the call began
C25_Witness ==
    /\ pc = "returned"
    /\ detector_ids = Ids(<<"anomaly">>)
    /\ Len(detectors) = 3
    /\ ~enabled[ApprovalsDetector]
    /\ detectors = call_detectors
    /\ enabled = call_enabled

\* the TransactionAnalyzer's call is over
AnalyzerFinished == analyzer_pc \in {"returned", "raised"}

\* the levels the dispatched detectors reported
ReportedLevels ==
    {analyzer_results[k].value.risk_level :
        k \in {j \in 1..Len(analyzer_results) :
                  analyzer_results[j].kind = "return"}}

\* C26: when a detector's analyze raises, TransactionAnalyzer's call still
\* returns a verdict, after every sibling has completed, and the verdict
\* holds the result of every sibling that returned one.
C26_AnalyzerContainsFailure ==
    (/\ AnalyzerFinished
     /\ \E k \in 1..Len(analyzer_results) : analyzer_results[k].kind = "raise")
    => /\ analyzer_pc = "returned"
       /\ \A k \in 1..Len(analyzer_results) : analyzer_results[k] # Pending
       /\ \A k \in 1..Len(analyzer_results) :
             analyzer_results[k].kind = "return" =>
                HasKey(analyzer_verdict.value.detector_results,
                       analyzer_results[k].value.detector)

\* C27: with detectors loaded and every one of them disabled, the call
\* returns what it returns when nothing is loaded: an unknown overall risk,
\* no details and an empty mapping.
C27_AllDisabledIsUnknown ==
    (/\ AnalyzerFinished
     /\ analyzer_detectors # <<>>
     /\ detector_tasks = <<>>)
    => /\ analyzer_pc = "returned"
       /\ analyzer_verdict.value.overall_risk \in {"UNKNOWN", "unknown"}
       /\ analyzer_verdict.value.details = <<>>
       /\ analyzer_verdict.value.detector_results = <<>>

\* C28: the overall risk the TransactionAnalyzer returns is a level some
\* dispatched detector reported, and no dispatched detector reported a
\* level of higher severity, in either vocabulary.
C28_AnalyzerOverallIsHighest ==
    (analyzer_pc = "returned" /\ detector_tasks # <<>>)
    => /\ analyzer_verdict.value.overall_risk \in ReportedLevels
       /\ \A r \in ReportedLevels :
             get_risk_level_priority(r)
                <= get_risk_level_priority(analyzer_verdict.value.overall_risk)

\* the loaded detectors whose name equals a name ignoring case
Matches(name) ==
    {i \in 1..Len(analyzer_detectors) :
        LowerName(AnalyzerName(analyzer_detectors[i])) = LowerName(name)}

\* C29: enable_detector(name) and disable_detector(name) return True exactly
\* when a loaded detector's name equals name ignoring case; then the flag
\* of the first such detector is set to the kind of the call and no other
\* flag changes; otherwise nothing changes. get_active_detectors lists the
\* names of exactly the loaded detectors whose flag is true, in load order,
\* and changes nothing.
C29_TogglesByName ==
    [][/\ other_calls' # other_calls =>
            /\ last_op'.op \in {"enable_detector", "disable_detector"}
            /\ op_result' = Bool(Matches(last_op'.name) # {})
            /\ analyzer_detectors' = analyzer_detectors
            /\ Matches(last_op'.name) = {} => analyzer_enabled' = analyzer_enabled
            /\ Matches(last_op'.name) # {} =>
                 \E i \in Matches(last_op'.name) :
                    /\ \A j \in Matches(last_op'.name) : i <= j
                    /\ analyzer_enabled' =
                          [analyzer_enabled EXCEPT
                              ![i] = (last_op'.op = "enable_detector")]
       /\ other_calls' = other_calls =>
            /\ analyzer_enabled' = analyzer_enabled
            /\ analyzer_detectors' = analyzer_detectors
       /\ (other_calls' = other_calls /\ last_op'.op = "get_active_detectors") =>
            LET on == {i \in 1..Len(analyzer_enabled) : analyzer_enabled[i]} IN
            /\ Len(op_result'.items) = Cardinality(on)
            /\ \A i \in on :
                  op_result'.items[Cardinality({j \in on : j <= i})]
                     = AnalyzerName(analyzer_detectors[i])
      ]_vars

\* all four detectors are loaded, one was disabled by its name in another
\* case, and get_active_detectors listed the three others
C29_Witness ==
    /\ last_op.op = "get_active_detectors"
    /\ analyzer_detectors = AVAILABLE_DETECTORS
    /\ analyzer_enabled = <<TRUE, TRUE, FALSE, TRUE>>
    /\ op_result = PyList(<<"Transaction Anomaly Detector",
                            "Contract Vulnerability Detector",
                            "Approvals Security Detector">>)

\* the error record of a failure with a message
ErrorRecord(msg) == [success |-> FALSE, error |-> msg, risk_level |-> "error"]

\* C30 (as stated): _analyze_with_detector never raises to its caller; a
\* failure of the detector's analyze comes back as the error record.
C30_SubroutineNeverRaises ==
    \A i \in 1..Len(task_outcome) :
       /\ task_outcome[i].kind # "raise"
       /\ task_analysis[i].kind = "raise" =>
             task_outcome[i] = Return(ErrorRecord(task_analysis[i].msg))

\* C30 (amended): _analyze_with_detector raises the detector's exception
\* again, unchanged; gather holds it in the task's slot, and the error
\* record is what analyze_transaction's result loop puts in the mapping.
C30_SubroutineReraises ==
    \A i \in 1..Len(task_outcome) :
       task_analysis[i].kind = "raise" =>
          /\ task_outcome[i] = Raise(task_analysis[i].msg)
          /\ detector_results[i] = task_outcome[i]
          /\ pc # "idle"
          /\ pc = "returned" =>
                /\ HasKey(verdict.detector_results, tasks[i].id)
                /\ Lookup(verdict.detector_results, tasks[i].id).result
                      = ErrorRecord(task_analysis[i].msg)

\* three detectors were dispatched, the third one's analyze failed, and the
\* call returned
C30_Witness ==
    /\ pc = "returned"
    /\ Len(task_outcome) = 3
    /\ task_outcome[3].kind = "raise"
    /\ task_outcome[1].kind = "return"

\* ------------------------------------------------ claims, fourth sitting
\* a call without explicit subset is over, and an id was added to the
\* registry while it was suspended
RegisteredMidCall ==
    /\ Finished
    /\ ~detector_ids.given
    /\ KeySet(detectors) # KeySet(call_detectors)

\* C31: when register_detector adds a new id while a call without explicit
\* subset is suspended, the call still returns, its mapping holds exactly
\* the ids it dispatched, each with its own result, and the new id is not
\* in it.
C31_RegistrationMidCall ==
    RegisteredMidCall =>
        /\ pc = "returned"
        /\ KeySet(Mapping) = DispatchedIds
        /\ KeySet(Mapping) \subseteq KeySet(call_detectors)
        /\ \A i \in 1..Len(tasks) :
              Lookup(Mapping, tasks[i].id).result = Entry(task_outcome[i])

\* C32: in a returned verdict every entry is stored under the id of one
\* dispatched task and is built from the outcome of that task, and the
\* entries of two different ids come from two different tasks.
C32_EntryFromOwnOutcome ==
    pc = "returned" =>
        /\ \A k \in 1..Len(Mapping) :
              \E i \in 1..Len(tasks) :
                 /\ tasks[i].id = Mapping[k].id
                 /\ Mapping[k].result = Entry(task_outcome[i])
                 /\ \A j \in 1..Len(tasks) : tasks[j].id = Mapping[k].id => j = i
        /\ \A i \in 1..Len(tasks) :
              \E k \in 1..Len(Mapping) : Mapping[k].id = tasks[i].id

\* a subset in another order than the registry's, with a disabled detector
\* registered but not asked for; the two entries differ
C32_Witness ==
    /\ pc = "returned"
    /\ detector_ids = Ids(<<"anomaly", "approvals">>)
    /\ ~call_enabled[MultisigDetector]
    /\ Len(Mapping) = 2
    /\ Mapping[1].id = "anomaly"
    /\ Mapping[1].result # Mapping[2].result

\* C34: for a returned mapping whose successful entries carry levels of
\* the seven lowercase levels, the older service's _calculate_overall_risk
\* of the mapping is the overall risk combine_detector_results gave.
C34_OlderMergeAgrees ==
    (/\ pc = "returned"
     /\ \A k \in 1..Len(Mapping) :
           Mapping[k].result.success => IsLevel(Mapping[k].result.risk_level))
    => older_calculate_overall_risk(Mapping) = verdict.overall_risk

\* a mapping of two successful entries of different canonical levels
C34_Witness ==
    /\ pc = "returned"
    /\ Len(Mapping) = 2
    /\ Mapping[1].result.success /\ Mapping[2].result.success
    /\ Mapping[1].result.risk_level = "unknown"
    /\ Mapping[2].result.risk_level = "safe"
    /\ verdict.overall_risk = "unknown"

\* ------------------------------------------ detectors/approvals_detector.py
\* operations made on one detector
MaxAnalyses == 3

\* a key the transaction dict does not have, a value that is a list (not
\* hashable), a value that is an int where a str is expected
Absent == "<absent>"
Unhashable == "<list>"
NotAString == "<int>"
\* the None that _detect_unusual_approval_pattern returns for a usual
\* approval, and that .get gives for a missing key without default
NoValue == "<None>"

\* transaction_data.get(key, default)
Get(value, default) == IF value = Absent THEN default ELSE value

\* config["max_recommended_approval_amount"], the decimal string of the code
MaxAmountStr == "115792089237316195423570985008687907853269984665640564039457"

\* int(max_amount): the 60-digit number scaled down to the integers of the
\* model, where every other amount lies below nine tenths of it
max_recommended_approval_amount == 1000000

\* config["high_amount_threshold_percentage"]
high_amount_threshold_percentage == 80

\* int(s) of a str: the number, or ValueError when s is not a numeral
ParseInt(s) ==
    CASE s = "0" -> [ok |-> TRUE, val |-> 0]
      [] s = "00" -> [ok |-> TRUE, val |-> 0]
      [] s = "50" -> [ok |-> TRUE, val |-> 50]
      [] s = "90" -> [ok |-> TRUE, val |-> 90]
      [] s = "100" -> [ok |-> TRUE, val |-> 100]
      [] s = "200" -> [ok |-> TRUE, val |-> 200]
      [] s = MaxAmountStr -> [ok |-> TRUE, val |-> max_recommended_approval_amount]
      [] OTHER -> [ok |-> FALSE, val |-> 0]

\* bool(value) of a str or None
Falsy(value) == value \in {"", NoValue}

\* str.lower() of a transaction type
TypeLower(s) ==
    CASE s = "APPROVAL" -> "approval"
      [] s = "ERC20_Approval" -> "erc20_approval"
      [] OTHER -> s

\* "approval" in s
ContainsApproval(s) == s \in {"approval", "erc20_approval"}

\* _is_approval_transaction: the approve selector, else a type that names an
\* approval; .lower() of a type that is no str raises AttributeError
is_approval_transaction(tx_type, method_id) ==
    IF method_id = "0x095ea7b3" THEN [raised |-> FALSE, msg |-> "", val |-> TRUE]
    ELSE IF Falsy(tx_type) THEN [raised |-> FALSE, msg |-> "", val |-> FALSE]
    ELSE IF tx_type = NotAString
    THEN [raised |-> TRUE, msg |-> "'int' object has no attribute 'lower'",
          val |-> FALSE]
    ELSE [raised |-> FALSE, msg |-> "",
          val |-> ContainsApproval(TypeLower(tx_type))]

\* _is_unlimited_approval: amount_int >= max_amount_int * 0.9
is_unlimited_approval(amount) ==
    IF Falsy(amount) \/ amount = "0" THEN FALSE
    ELSE IF ~ParseInt(amount).ok THEN FALSE
    ELSE ParseInt(amount).val * 10 >= max_recommended_approval_amount * 9

\* _check_approval_amount_risk: the approved amount as a share of the balance
check_approval_amount_risk(amount, balance) ==
    IF Falsy(amount) \/ Falsy(balance) \/ balance = "0" THEN "safe"
    ELSE IF ~ParseInt(amount).ok \/ ~ParseInt(balance).ok THEN "unknown"
    ELSE IF ParseInt(balance).val = 0 THEN "medium"
    ELSE IF ParseInt(amount).val >= ParseInt(balance).val THEN "high"
    ELSE IF ParseInt(amount).val * 100
              >= high_amount_threshold_percentage * ParseInt(balance).val
    THEN "medium"
    ELSE "safe"

\* _detect_unusual_approval_pattern: the reason, or NoValue
detect_unusual_approval_pattern(history, user_id, to_address) ==
    IF ~history[user_id].present THEN "first_approval"
    ELSE IF to_address \notin history[user_id].approved_contracts
    THEN "new_approval_target"
    ELSE NoValue

\* _update_approval_history: the entry is created and the contract added
\* before set.add(token_address) raises TypeError on a token that is a list
update_approval_history(history, user_id, to_address, token_address) ==
    LET created == IF history[user_id].present THEN history
                   ELSE [history EXCEPT ![user_id] =
                            [present |-> TRUE, approved_contracts |-> {},
                             approved_tokens |-> {}, approval_count |-> 0]]
        withContract ==
            [created EXCEPT ![user_id].approved_contracts = @ \cup {to_address}]
    IN  IF token_address = Unhashable
        THEN [raised |-> TRUE, msg |-> "unhashable type: 'list'",
              history |-> withContract]
        ELSE [raised |-> FALSE, msg |-> "",
              history |-> [withContract EXCEPT
                              ![user_id].approved_tokens = @ \cup {token_address},
                              ![user_id].approval_count = @ + 1]]

\* one entry of results["triggers"]: its type, and the reason of an
\* unusual pattern
Trigger(type, detail) == [type |-> type, detail |-> detail]

\* the four checks of analyze in their order, each on the level the checks
\* before it left
ApprovalChecks(tx, history, malicious) ==
    LET to_address == Get(tx.to, "")
        amount == Get(tx.amount, "0")
        balance == Get(tx.token_balance, "0")
        isMalicious == to_address \in malicious
        l1 == IF isMalicious THEN "critical" ELSE "safe"
        t1 == IF isMalicious THEN <<Trigger("malicious_contract", "")>> ELSE <<>>
        isUnlimited == is_unlimited_approval(amount)
        l2 == IF isUnlimited THEN (IF l1 = "safe" THEN "high" ELSE l1) ELSE l1
        t2 == IF isUnlimited THEN Append(t1, Trigger("unlimited_approval", ""))
              ELSE t1
        amount_risk == check_approval_amount_risk(amount, balance)
        l3 == IF amount_risk # "safe"
                 /\ get_risk_level_priority(amount_risk)
                      > get_risk_level_priority(l2)
              THEN amount_risk ELSE l2
        t3 == IF amount_risk # "safe"
              THEN Append(t2, Trigger("high_approval_amount", ""))
              ELSE t2
        unusual_pattern ==
            detect_unusual_approval_pattern(history, Get(tx.user_id, ""),
                                            to_address)
        l4 == IF unusual_pattern # NoValue
              THEN (IF l3 = "safe" THEN "medium" ELSE l3) ELSE l3
        t4 == IF unusual_pattern # NoValue
              THEN Append(t3, Trigger("unusual_pattern", unusual_pattern))
              ELSE t3
    IN  [risk_level |-> l4,
         details |-> Str("No issues detected with this approval"),
         triggers |-> t4]

\* the body of the try block of analyze: what it returns or raises, and the
\* history it leaves behind
ApprovalsTry(tx, history, malicious) ==
    LET isApproval == is_approval_transaction(Get(tx.type, ""),
                                              Get(tx.method_id, ""))
        updated == update_approval_history(history, Get(tx.user_id, ""),
                       Get(tx.to, ""), Get(tx.token_address, ""))
    IN  IF isApproval.raised
        THEN [outcome |-> Raise(isApproval.msg), history |-> history]
        ELSE IF ~isApproval.val
        THEN [outcome |-> Return([risk_level |-> "safe",
                                  details |-> Str("Not an approval transaction"),
                                  triggers |-> <<>>]),
              history |-> history]
        ELSE IF Get(tx.to, "") = Unhashable
        THEN [outcome |-> Raise("unhashable type: 'list'"), history |-> history]
        ELSE IF updated.raised
        THEN [outcome |-> Raise(updated.msg), history |-> updated.history]
        ELSE [outcome |-> Return(ApprovalChecks(tx, history, malicious)),
              history |-> updated.history]

\* an except clause that logs and raises again
ApprovalsExceptReraises(attempt) == attempt

\* except Exception as e: the error result, whatever the try block raised
ApprovalsExcept(attempt) ==
    IF attempt.outcome.kind = "raise"
    THEN [attempt EXCEPT !.outcome =
             Return([risk_level |-> "error",
                     details |-> Str("Analysis error: " \o attempt.outcome.msg),
                     triggers |-> <<>>])]
    ELSE attempt

\* an analyze that reports on the history and writes to a copy of it
ApprovalsAnalyzeOnCopy(tx, isEnabled, history, malicious) ==
    IF ~isEnabled
    THEN [outcome |-> Return([risk_level |-> "unknown",
                              details |-> Str("Detector disabled")]),
          history |-> history]
    ELSE [ApprovalsExcept(ApprovalsTry(tx, history, malicious))
             EXCEPT !.history = history]

\* ApprovalsDetector.analyze(transaction_data)
approvals_analyze(tx, isEnabled, history, malicious) ==
    IF ~isEnabled
    THEN [outcome |-> Return([risk_level |-> "unknown",
                              details |-> Str("Detector disabled")]),
          history |-> history]
    ELSE ApprovalsExcept(ApprovalsTry(tx, history, malicious))

\* the transactions handed to ApprovalsDetector.analyze
AmountCases ==
    {<<"50", "100">>, <<"90", "100">>, <<"200", "100">>, <<"abc", "100">>,
     <<MaxAmountStr, "100">>, <<MaxAmountStr, "0">>}

Tx(type, method_id, user_id, to, amounts, token_address) ==
    [type |-> type, method_id |-> method_id, user_id |-> user_id, to |-> to,
     amount |-> amounts[1], token_balance |-> amounts[2],
     token_address |-> token_address]

\* calls of approve(spender, amount) by their selector, the token address
\* a str or a list
ApproveCalls ==
    {Tx(Absent, "0x095ea7b3", u, c, a, "0xt1") :
        u \in Users, c \in Contracts, a \in AmountCases}
    \cup {Tx(Absent, "0x095ea7b3", u, c, <<"50", "100">>, Unhashable) :
             u \in Users, c \in Contracts}

\* transactions told by their type, approvals or not, well formed or not
TypedTxs ==
    {Tx(ty, Absent, "u1", "0xc1", <<"50", "100">>, "0xt1") :
        ty \in {"ERC20_Approval", "transfer", Absent, NotAString}}
    \cup {Tx("ERC20_Approval", Absent, "u1", Unhashable, <<"50", "100">>, "0xt1")}

ApprovalTxs == ApproveCalls \cup TypedTxs

\* whether the last analysis ended in the except clause
IsError(outcome) ==
    outcome.kind = "return" /\ outcome.value.risk_level = "error"

\* whether analyze(tx) gets past the disabled short cut and the
\* "Not an approval transaction" return
AnalysedAsApproval(tx, isEnabled) ==
    /\ isEnabled
    /\ ~is_approval_transaction(Get(tx.type, ""),
                                Get(tx.method_id, "")).raised
    /\ is_approval_transaction(Get(tx.type, ""),
                               Get(tx.method_id, "")).val

\* one call of ApprovalsDetector.analyze, awaited to its end
ApprovalsAnalyzeTx(tx) ==
    LET done == approvals_analyze(tx, enabled[ApprovalsDetector],
                                  approval_history, known_malicious_contracts)
    IN  /\ other_calls < MaxAnalyses
        /\ other_calls' = other_calls + 1
        /\ approval_history' = done.history
        /\ last_op' = [op |-> "approvals.analyze", tx |-> tx]
        /\ op_result' = done.outcome
        /\ analysed' =
              IF AnalysedAsApproval(tx, enabled[ApprovalsDetector])
                 /\ ~IsError(done.outcome)
              THEN analysed \cup {[detector |-> "approvals",
                                   key |-> tx.user_id, items |-> {tx.to}]}
              ELSE analysed
        /\ UNCHANGED <<detectors, enabled, callVars, first_call, riskVars,
                       info, analyzerVars, known_malicious_contracts,
                       signature_history, calls>>

\* add_malicious_contract(address)
add_malicious_contract(address) ==
    /\ other_calls < MaxOtherCalls
    /\ other_calls' = other_calls + 1
    /\ known_malicious_contracts' =
          known_malicious_contracts \cup {address}
    /\ last_op' = [op |-> "add_malicious_contract", address |-> address]
    /\ op_result' = PyNone
    /\ UNCHANGED <<detectors, enabled, callVars, first_call, riskVars, info,
                   analyzerVars, approval_history, signature_history,
                   analysed, calls>>

\* -------------------------------------------- detectors/multisig_detector.py
\* threshold_config["time_anomaly_threshold_seconds"]
time_anomaly_threshold_seconds == 300

\* signature_timestamps that sorted() cannot order: a str among the numbers
Unsortable == <<-1>>

\* sorted(timestamps) of a list of numbers
Sorted(timestamps) ==
    CHOOSE s \in [1..Len(timestamps) -> Range(timestamps)] :
        /\ \A i \in 1..(Len(s) - 1) : s[i] <= s[i + 1]
        /\ \A t \in Range(timestamps) :
              Cardinality({i \in 1..Len(s) : s[i] = t})
                  = Cardinality({i \in 1..Len(timestamps) : timestamps[i] = t})

\* the for loop of _detect_time_anomalies over the sorted timestamps
RECURSIVE TimeAnomaliesLoop(_, _, _)
TimeAnomaliesLoop(sorted_timestamps, i, anomalies) ==
    IF i > Len(sorted_timestamps) THEN anomalies
    ELSE LET time_diff == sorted_timestamps[i] - sorted_timestamps[i - 1] IN
         TimeAnomaliesLoop(sorted_timestamps, i + 1,
             IF time_diff < 1
             THEN Append(anomalies, "signatures_too_close")
             ELSE IF time_diff < time_anomaly_threshold_seconds
             THEN Append(anomalies, "accelerated_signatures")
             ELSE anomalies)

\* _detect_time_anomalies: sorted() raises TypeError on mixed types
detect_time_anomalies(timestamps) ==
    IF Len(timestamps) < 2 THEN [raised |-> FALSE, msg |-> "", val |-> <<>>]
    ELSE IF timestamps = Unsortable
    THEN [raised |-> TRUE,
          msg |-> "'<' not supported between instances of 'int' and 'str'",
          val |-> <<>>]
    ELSE [raised |-> FALSE, msg |-> "",
          val |-> TimeAnomaliesLoop(Sorted(timestamps), 2, <<>>)]

\* the for loop of _detect_unusual_signers; "signer not in" a set raises
\* TypeError on a signer that is a list
RECURSIVE UnusualSignersLoop(_, _, _, _, _)
UnusualSignersLoop(historical_signers, current_signers, provided, i, unusual) ==
    IF i > Len(provided) THEN [raised |-> FALSE, msg |-> "", val |-> unusual]
    ELSE IF provided[i] = Unhashable
    THEN [raised |-> TRUE, msg |-> "unhashable type: 'list'", val |-> unusual]
    ELSE UnusualSignersLoop(historical_signers, current_signers, provided, i + 1,
             IF provided[i] \notin historical_signers
                /\ provided[i] \in Range(current_signers)
             THEN Append(unusual, provided[i]) ELSE unusual)

\* _detect_unusual_signers: nothing to compare with for a wallet without history
detect_unusual_signers(history, wallet_address, current_signers, provided) ==
    IF ~history[wallet_address].present
    THEN [raised |-> FALSE, msg |-> "", val |-> <<>>]
    ELSE UnusualSignersLoop(history[wallet_address].common_signers,
                            current_signers, provided, 1, <<>>)

\* _detect_quorum_manipulation
detect_quorum_manipulation(required_signatures, provided_signatures) ==
    Len(provided_signatures) < required_signatures

\* the for loop of _update_signature_history: common_signers.add(signer)
\* raises TypeError on a signer that is a list, after the signers before it
\* were added
RECURSIVE CommonSignersLoop(_, _, _)
CommonSignersLoop(common_signers, provided, i) ==
    IF i > Len(provided) THEN [raised |-> FALSE, val |-> common_signers]
    ELSE IF provided[i] = Unhashable
    THEN [raised |-> TRUE, val |-> common_signers]
    ELSE CommonSignersLoop(common_signers \cup {provided[i]}, provided, i + 1)

\* _update_signature_history (last_update, a clock reading, is left out)
update_signature_history(history, wallet_address, signers, provided) ==
    LET created == IF history[wallet_address].present THEN history
                   ELSE [history EXCEPT ![wallet_address] =
                            [present |-> TRUE, transaction_count |-> 0,
                             common_signers |-> {},
                             all_signers |-> Range(signers)]]
        counted == [created EXCEPT ![wallet_address].transaction_count = @ + 1]
        added == CommonSignersLoop(counted[wallet_address].common_signers,
                                   provided, 1)
        withCommon == [counted EXCEPT ![wallet_address].common_signers = added.val]
    IN  IF added.raised
        THEN [raised |-> TRUE, msg |-> "unhashable type: 'list'",
              history |-> withCommon]
        ELSE [raised |-> FALSE, msg |-> "",
              history |-> [withCommon EXCEPT ![wallet_address].all_signers =
                              @ \cup Range(signers)]]

\* the three checks of analyze in their order
MultisigChecks(unusual_signers, time_anomalies, quorum) ==
    LET l1 == IF unusual_signers # <<>> THEN "high" ELSE "safe"
        t1 == IF unusual_signers # <<>>
              THEN <<[type |-> "unusual_signers", signers |-> unusual_signers]>>
              ELSE <<>>
        l2 == IF time_anomalies # <<>>
              THEN (IF l1 = "safe" THEN "medium" ELSE l1) ELSE l1
        t2 == IF time_anomalies # <<>>
              THEN Append(t1, [type |-> "time_anomalies",
                               details |-> time_anomalies])
              ELSE t1
        l3 == IF quorum THEN "critical" ELSE l2
        t3 == IF quorum THEN Append(t2, [type |-> "quorum_manipulation"])
              ELSE t2
    IN  [risk_level |-> l3, details |-> Str("No security issues detected"),
         triggers |-> t3]

\* the body of the try block of analyze: what it returns or raises, and the
\* history it leaves behind
MultisigTry(tx, history) ==
    LET unusual == detect_unusual_signers(history, tx.wallet_address,
                       tx.signers, tx.provided_signatures)
        anomalies == detect_time_anomalies(tx.signature_timestamps)
        updated == update_signature_history(history, tx.wallet_address,
                       tx.signers, tx.provided_signatures)
    IN  IF unusual.raised
        THEN [outcome |-> Raise(unusual.msg), history |-> history]
        ELSE IF anomalies.raised
        THEN [outcome |-> Raise(anomalies.msg), history |-> history]
        ELSE IF updated.raised
        THEN [outcome |-> Raise(updated.msg), history |-> updated.history]
        ELSE [outcome |->
                 Return(MultisigChecks(unusual.val, anomalies.val,
                            detect_quorum_manipulation(tx.required_signatures,
                                tx.provided_signatures))),
              history |-> updated.history]

\* except Exception as e: the error result, whatever the try block raised
MultisigExcept(attempt) ==
    IF attempt.outcome.kind = "raise"
    THEN [attempt EXCEPT !.outcome =
             Return([risk_level |-> "error",
                     details |-> Str("Analysis error: " \o attempt.outcome.msg),
                     triggers |-> <<>>])]
    ELSE attempt

\* MultisigDetector.analyze(transaction_data)
multisig_analyze(tx, isEnabled, history) ==
    IF ~isEnabled
    THEN [outcome |-> Return([risk_level |-> "unknown",
                              details |-> Str("Detector disabled")]),
          history |-> history]
    ELSE MultisigExcept(MultisigTry(tx, history))

\* the transactions handed to MultisigDetector.analyze
MultisigTxs ==
    [wallet_address : Wallets,
     signers : {<<"A", "B">>},
     required_signatures : {1, 2},
     provided_signatures : {<<>>, <<"A">>, <<"B">>, <<"A", "B">>,
                            <<"A", Unhashable>>},
     signature_timestamps : {<<>>}]
    \cup [wallet_address : Wallets,
          signers : {<<"A", "B">>},
          required_signatures : {2},
          provided_signatures : {<<"A">>},
          signature_timestamps : {<<600, 0>>, <<0, 100>>, <<5, 5>>, Unsortable}]

\* one call of MultisigDetector.analyze, awaited to its end
MultisigAnalyzeTx(tx) ==
    LET done == multisig_analyze(tx, enabled[MultisigDetector],
                                 signature_history)
    IN  /\ other_calls < MaxAnalyses
        /\ other_calls' = other_calls + 1
        /\ signature_history' = done.history
        /\ last_op' = [op |-> "multisig.analyze", tx |-> tx]
        /\ op_result' = done.outcome
        /\ analysed' =
              IF enabled[MultisigDetector] /\ ~IsError(done.outcome)
              THEN analysed \cup {[detector |-> "multisig",
                                   key |-> tx.wallet_address,
                                   items |-> Range(tx.provided_signatures)]}
              ELSE analysed
        /\ UNCHANGED <<detectors, enabled, callVars, first_call, riskVars,
                       info, analyzerVars, approval_history,
                       known_malicious_contracts, calls>>

\* the two detectors of src/detectors, each called on its own
NextDetectors ==
    \/ \E tx \in ApprovalTxs : ApprovalsAnalyzeTx(tx)
    \/ \E tx \in MultisigTxs : MultisigAnalyzeTx(tx)
    \/ \E c \in {"0xc1"} : add_malicious_contract(c)
    \/ \E d \in {ApprovalsDetector, MultisigDetector} : CallEnable(d)
    \/ \E d \in {ApprovalsDetector, MultisigDetector} : CallDisable(d)

SpecDetectors == Init /\ [][NextDetectors]_vars

\* the last operation was an analysis by the ApprovalsDetector that got past
\* its two early returns and did not end in the except clause
ApprovalReported ==
    /\ last_op.op = "approvals.analyze"
    /\ AnalysedAsApproval(last_op.tx, enabled[ApprovalsDetector])
    /\ ~IsError(op_result)

\* the level the check behind one trigger of analyze(tx) assigns
TriggerLevel(trigger, tx) ==
    CASE trigger.type = "malicious_contract" -> "critical"
      [] trigger.type = "unlimited_approval" -> "high"
      [] trigger.type = "high_approval_amount" ->
            check_approval_amount_risk(Get(tx.amount, "0"),
                                       Get(tx.token_balance, "0"))
      [] trigger.type = "unusual_pattern" -> "medium"

HasTrigger(result, type, detail) ==
    \E k \in 1..Len(result.triggers) :
        result.triggers[k] = Trigger(type, detail)

HasTriggerOfType(result, type) ==
    \E k \in 1..Len(result.triggers) : result.triggers[k].type = type

\* C35: the risk level an approval analysis reports is the highest-priority
\* level among the checks that fired (critical for a malicious target, high
\* for an unlimited amount, the amount-vs-balance level when it is not safe,
\* medium for an unusual pattern) and safe when none fired, so that no check
\* leaves the result below the level it assigns.
C35_HighestFiredLevel ==
    ApprovalReported =>
        LET result == op_result.value IN
        /\ result.triggers = <<>> => result.risk_level = "safe"
        /\ result.triggers # <<>> =>
              \E k \in 1..Len(result.triggers) :
                  result.risk_level
                      = TriggerLevel(result.triggers[k], last_op.tx)
        /\ \A k \in 1..Len(result.triggers) :
              get_risk_level_priority(
                  TriggerLevel(result.triggers[k], last_op.tx))
                  <= get_risk_level_priority(result.risk_level)

\* the step is one call of ApprovalsDetector.analyze
ApprovalsStep ==
    /\ other_calls' = other_calls + 1
    /\ last_op'.op = "approvals.analyze"

\* the error-free approval analyses made so far for a user
ApprovalsAnalysedFor(user_id) ==
    {a \in analysed : a.detector = "approvals" /\ a.key = user_id}

\* C36: the first approval analysed for a user carries an unusual_pattern
\* trigger with reason first_approval; an approval to a contract the user has
\* not approved before carries reason new_approval_target; once an approval
\* by U to C has been analysed without error, every later approval by U to C
\* carries no unusual_pattern trigger. Analyses that end in an error are
\* left out of "analysed" here, on both sides.
C36_UnusualPatternFollowsHistory ==
    [][(ApprovalsStep
        /\ AnalysedAsApproval(last_op'.tx, enabled[ApprovalsDetector])
        /\ ~IsError(op_result'))
       => LET tx == last_op'.tx
              earlier == ApprovalsAnalysedFor(tx.user_id)
              result == op_result'.value
          IN  /\ earlier = {} =>
                    HasTrigger(result, "unusual_pattern", "first_approval")
              /\ (earlier # {} /\ \A a \in earlier : tx.to \notin a.items) =>
                    HasTrigger(result, "unusual_pattern", "new_approval_target")
              /\ (\E a \in earlier : tx.to \in a.items) =>
                    ~HasTriggerOfType(result, "unusual_pattern")]_vars

\* C37: analyze leaves approval_history unchanged when the detector is
\* disabled (result unknown, "Detector disabled") and when the transaction is
\* not an approval (result safe); only an analysed approval adds to the
\* history, and what it adds is one to that user's approval_count, never
\* removing a recorded contract or token.
C37_HistoryFrame ==
    [][ApprovalsStep
       => LET tx == last_op'.tx
              isApproval == is_approval_transaction(Get(tx.type, ""),
                                                    Get(tx.method_id, ""))
          IN  /\ ~enabled[ApprovalsDetector] =>
                    /\ op_result' = Return([risk_level |-> "unknown",
                                            details |-> Str("Detector disabled")])
                    /\ approval_history' = approval_history
              /\ (enabled[ApprovalsDetector] /\ ~isApproval.raised
                    /\ ~isApproval.val) =>
                    /\ op_result'.value.risk_level = "safe"
                    /\ approval_history' = approval_history
              /\ approval_history' # approval_history =>
                    /\ AnalysedAsApproval(tx, enabled[ApprovalsDetector])
                    /\ \A u \in Users \ {tx.user_id} :
                          approval_history'[u] = approval_history[u]
                    /\ approval_history'[tx.user_id].approval_count
                          = approval_history[tx.user_id].approval_count + 1
                    /\ approval_history[tx.user_id].approved_contracts
                          \subseteq approval_history'[tx.user_id].approved_contracts
                    /\ approval_history[tx.user_id].approved_tokens
                          \subseteq approval_history'[tx.user_id].approved_tokens]_vars

\* the step is one call of MultisigDetector.analyze
MultisigStep ==
    /\ other_calls' = other_calls + 1
    /\ last_op'.op = "multisig.analyze"

\* what the try block of the analysis made in this step returns or raises
StepAttempt ==
    IF last_op'.op = "approvals.analyze"
    THEN ApprovalsTry(last_op'.tx, approval_history, known_malicious_contracts)
    ELSE MultisigTry(last_op'.tx, signature_history)

StepEnabled ==
    IF last_op'.op = "approvals.analyze"
    THEN enabled[ApprovalsDetector] ELSE enabled[MultisigDetector]

MultisigAnalysedFor(wallet_address) ==
    {a \in analysed : a.detector = "multisig" /\ a.key = wallet_address}

\* the signers a result reports as unusual
ReportedUnusual(result) ==
    UNION {Range(result.triggers[k].signers) :
              k \in {j \in 1..Len(result.triggers) :
                        result.triggers[j].type = "unusual_signers"}}

\* C38: the first transaction analysed for a wallet never reports unusual
\* signers; a signer that provided a signature in an earlier analysed
\* transaction of that wallet is never reported as unusual later; a
\* transaction with fewer provided signatures than required is reported
\* critical whatever the other checks say. Analyses that end in an error are
\* left out of "analysed" here, on both sides.
C38_SignerHistory ==
    [][(MultisigStep /\ enabled[MultisigDetector] /\ ~IsError(op_result'))
       => LET tx == last_op'.tx
              earlier == MultisigAnalysedFor(tx.wallet_address)
              result == op_result'.value
          IN  /\ earlier = {} => ReportedUnusual(result) = {}
              /\ \A a \in earlier : a.items \cap ReportedUnusual(result) = {}
              /\ Len(tx.provided_signatures) < tx.required_signatures =>
                    result.risk_level = "critical"]_vars

\* ------------------------- concurrent calls of DetectorService.analyze_transaction
\* the multisig fields of the transaction records the callers hand in
MultisigFields ==
    [wallet_address |-> "w1", signers |-> <<"A", "B">>,
     required_signatures |-> 1, provided_signatures |-> <<"A">>,
     signature_timestamps |-> <<>>]

\* approvals of two contracts by two users, the token address a str or a list
ConcurrentTxs ==
    {Tx(Absent, "0x095ea7b3", "u1", "0xc1", <<"50", "100">>, "0xt1"),
     Tx(Absent, "0x095ea7b3", "u1", "0xc2", <<"50", "100">>, "0xt1"),
     Tx(Absent, "0x095ea7b3", "u2", "0xc1", <<"50", "100">>, "0xt1"),
     Tx(Absent, "0x095ea7b3", "u1", "0xc1", <<"50", "100">>, Unhashable)}

\* analyze_transaction(tx) without detector_ids, up to its await: one task
\* per enabled detector of the registry
ConcurrentCall(c, tx) ==
    /\ calls[c].pc = "idle"
    /\ \E built \in {BuildTasks(detectors, 1, enabled, <<>>)} :
          calls' = [calls EXCEPT ![c] =
                       [pc |-> "awaiting", tx |-> tx @@ MultisigFields,
                        tasks |-> built,
                        outcomes |-> [i \in 1..Len(built) |-> Pending],
                        verdict |-> NoVerdict]]
    /\ UNCHANGED <<detectors, enabled, callVars, other_calls, first_call,
                   riskVars, info, queryVars, analyzerVars, approval_history,
                   known_malicious_contracts, signature_history, analysed>>

\* task i of caller c runs _analyze_with_detector to its end: the detector's
\* analyze has no await of its own, so nothing runs in between
ConcurrentTask(c, i) ==
    /\ calls[c].pc = "awaiting"
    /\ i \in 1..Len(calls[c].tasks)
    /\ calls[c].outcomes[i] = Pending
    /\ LET tx == calls[c].tx
           det == calls[c].tasks[i].detector
           done == IF det = ApprovalsDetector
                   THEN approvals_analyze(tx, enabled[det], approval_history,
                                          known_malicious_contracts)
                   ELSE multisig_analyze(tx, enabled[det], signature_history)
       IN  /\ calls' = [calls EXCEPT ![c].outcomes[i] =
                           analyze_with_detector(done.outcome)]
           /\ IF det = ApprovalsDetector
              THEN /\ approval_history' = done.history
                   /\ UNCHANGED signature_history
              ELSE /\ signature_history' = done.history
                   /\ UNCHANGED approval_history
    /\ UNCHANGED <<detectors, enabled, callVars, other_calls, first_call,
                   riskVars, info, queryVars, analyzerVars,
                   known_malicious_contracts, analysed>>

\* analyze_transaction of caller c from its await on: the result loop and
\* combine_detector_results
ConcurrentResume(c) ==
    /\ calls[c].pc = "awaiting"
    /\ \A i \in 1..Len(calls[c].outcomes) : calls[c].outcomes[i] # Pending
    /\ \E p \in {ProcessResults(Keys(detectors), calls[c].outcomes, 1, <<>>)} :
          calls' = [calls EXCEPT
                       ![c].pc = IF p.raised THEN "raised" ELSE "returned",
                       ![c].verdict = IF p.raised THEN NoVerdict
                                      ELSE combine_detector_results(p.results)]
    /\ UNCHANGED <<detectors, enabled, callVars, other_calls, first_call,
                   riskVars, info, queryVars, analyzerVars, approval_history,
                   known_malicious_contracts, signature_history, analysed>>

NextConcurrent ==
    \/ \E c \in Callers, tx \in ConcurrentTxs : ConcurrentCall(c, tx)
    \/ \E c \in Callers, i \in 1..2 : ConcurrentTask(c, i)
    \/ \E c \in Callers : ConcurrentResume(c)

SpecConcurrent == Init /\ [][NextConcurrent]_vars

\* the callers that have handed in an approval by this user
CallsBy(user_id) ==
    {c \in Callers : calls[c].pc # "idle" /\ calls[c].tx.user_id = user_id}

\* the entry of the ApprovalsDetector in the verdict caller c got
ApprovalsEntry(c) == Lookup(calls[c].verdict.detector_results, "approvals").result

\* every call with an approval by this user has returned, none of them with
\* an error of the ApprovalsDetector, and two of them name the same contract
SameUserCallsDone(user_id) ==
    /\ \A c \in CallsBy(user_id) :
          /\ calls[c].pc = "returned"
          /\ ApprovalsEntry(c).risk_level # "error"
    /\ \E c1, c2 \in CallsBy(user_id) :
          c1 # c2 /\ calls[c1].tx.to = calls[c2].tx.to

====
